---- MODULE Spec2Model ----
(***************************************************************************)
(* Model of StreamDeckState (src/server.py): pages, button configs, action *)
(* bindings, the device session and the key-press dispatch.                *)
(*                                                                         *)
(* Every method of StreamDeckState is an operator from a state record to   *)
(* the state record after the call (field exc names the exception the call *)
(* raised, "none" when it returned).  Spec runs each method as one action; *)
(* SpecPages and SpecConnect run the page operations and the session       *)
(* operations in longer runs (SpecConnect with the clock); SpecDevice runs *)
(* the hardware operations on a device that may stop answering in the      *)
(* middle of a call, SpecDisk the saving operations on a disk whose writes *)
(* may fail, SpecCrash the same operations in a process that may be killed *)
(* during a save and started again; SpecPure runs the validation           *)
(* functions on their inputs.  SpecConc runs switch_page, delete_page,     *)
(* create_page and _key_callback statement by statement on two threads     *)
(* (the caller and the reader thread of the device transport), SpecRace    *)
(* does the same for set_button_image and set_button_action.               *)
(***************************************************************************)
EXTENDS Integers, Sequences, FiniteSets, TLC

VARIABLES
    deck,              \* self.deck: None or the open handle
    current_page,      \* self.current_page
    pages,             \* self.pages: page name -> (key string -> ButtonConfig)
    button_callbacks,  \* self.button_callbacks: page name -> (key string -> binding)
    brightness,        \* self._brightness
    connect_attempts,  \* self._connect_attempts
    display,           \* the device: image shown on each key
    device_brightness, \* the device: the brightness it was last set to
    hw,                \* the device as the last call found it: "ok", "none" (unplugged),
                       \* "faulty" (enumerates, every call on it fails) or "enumfail"
    diskPages,         \* PAGES_FILE
    diskButtons,       \* BUTTONS_FILE
    launched,          \* commands handed to subprocess.Popen so far
    clock,             \* time.time(), in ticks
    last_connect_attempt,  \* self._last_connect_attempt
    last_enumerate,    \* the time connect last looked for devices (Never: not yet)
    environment,       \* what the run's environment does during a call: "steady" (the
                       \* device keeps the condition the call found it in, the disk takes
                       \* every write), "device" (the device may stop answering between
                       \* two calls on its handle) or the way a write to the disk may
                       \* fail ("denied", "full", "buttons_denied"), "crash" (the
                       \* process may be killed during a save) or "pure" (a run of
                       \* the validation functions)
    last,              \* the last call: operation, arguments, exception, result
    callsLeft,         \* number of calls the run may still make
    callerPc,          \* SpecConc, SpecRace: the caller thread's position
    callerArg,         \* SpecConc: the caller's page name argument; SpecRace: the
                       \* key of the call and the pages that were current when it
                       \* began and when it pushed its image
    cbPc,              \* the reader thread's position in _key_callback
    cbArg              \* new_page of the running _key_callback

progVars == <<deck, current_page, pages, button_callbacks, brightness,
              connect_attempts, display, device_brightness, hw, diskPages, diskButtons,
              launched, clock, last_connect_attempt, last_enumerate, environment>>
concVars == <<callerPc, callerArg, cbPc, cbArg>>
vars == <<deck, current_page, pages, button_callbacks, brightness,
          connect_attempts, display, device_brightness, hw, diskPages, diskButtons,
          launched, clock, last_connect_attempt, last_enumerate, environment,
          last, callsLeft, callerPc, callerArg, cbPc, cbArg>>

----------------------------------------------------------------------------
(* Bounds of the model *)

\* number of keys of the device (deck.key_count())
KeyCount == 2
\* number of distinct valid page names the caller uses
MaxPages == 2
\* number of calls and key events in a run
MaxOps == 2
\* number of calls in a run of the page operations, and of operations the two
\* threads start in a run of SpecConc
MaxPageOps == 3
\* longest list passed to set_buttons
MaxBatch == 2
\* number of calls in a run of the connection operations
MaxConnectOps == 4
\* resolution of the clock: ticks in one second
TicksPerSecond == 2
\* ticks the caller waits between calls in a run of the connection operations
MaxTicks == 1
\* number of calls in a run in which the device may stop answering during a call
MaxDeviceOps == 3
\* number of calls in a run in which a write to the disk may fail
MaxDiskOps == 2
\* number of calls in a run in which the process may be killed during a save
MaxCrashOps == 3
\* number of calls in a run of the validation functions
MaxPureOps == 2

(* Program constants *)
MAX_PAGE_NAME_LENGTH == 50
MAX_RECONNECT_ATTEMPTS == 3
RECONNECT_DELAY_BASE == 1
DefaultBrightness == 70
DefaultFontSize == 14

None == "None"

\* RECONNECT_DELAY_BASE in ticks
Delay == RECONNECT_DELAY_BASE * TicksPerSecond
\* the value of last_enumerate before the first connect
Never == 0 - 1
\* the number of calls a device answers that never stops answering
Forever == 0 - 1
\* the brightness of a device that was never told one
Unset == 0 - 1

\* Python sequences: a tuple and a list of the same items are different values
\* (json.dumps writes both as an array, json.loads reads an array as a list)
PyTuple(items) == [py |-> "tuple", items |-> items]
PyList(items) == [py |-> "list", items |-> items]

\* a tuple of floats: items holds its components in tenths
PyFloatTuple(tenths) == [py |-> "tuple", items |-> tenths, unit |-> "tenth"]
\* the number of units of a colour's items that make 1
UnitsOf(color) == IF "unit" \in DOMAIN color THEN 10 ELSE 1

DEFAULT_BG_COLOR == PyTuple(<<0, 0, 0>>)
DEFAULT_TEXT_COLOR == PyTuple(<<255, 255, 255>>)

----------------------------------------------------------------------------
(* dict helpers *)

EmptyDict == << >>
DictGet(d, k, dflt) == IF k \in DOMAIN d THEN d[k] ELSE dflt
DictSet(d, k, v) == [x \in (DOMAIN d) \cup {k} |-> IF x = k THEN v ELSE d[x]]
DictDel(d, k) == [x \in (DOMAIN d) \ {k} |-> d[x]]

(* str(key) and int(key_str) over the keys the model uses *)
DigitStr == <<"0", "1", "2", "3", "4">>
Str(k) == DigitStr[k + 1]
IsIntStr(ks) == \E i \in 1..Len(DigitStr) : DigitStr[i] = ks
IntOf(ks) == (CHOOSE i \in 1..Len(DigitStr) : DigitStr[i] = ks) - 1

----------------------------------------------------------------------------
(* Page names.  A name is an atom of the model; CharsOf gives its          *)
(* characters, which is what _validate_page_name looks at.                 *)

ValidNamePool == <<"main", "gaming", "work", "home office">>
ValidNames == {ValidNamePool[i] : i \in 1..MaxPages}
LongName == "aaa...a(51)"
InvalidNames == {"", "bad@name", LongName}
NameInputs == ValidNames \cup InvalidNames
\* names at the limits of _validate_page_name
FullName == "aaa...a(50)"
PageNameInputs ==
    NameInputs \cup {FullName, "Work_Setup-2025", "a\tb", "a\nb", "a.b"}

CharsOf(name) ==
    CASE name = ""            -> << >>
      [] name = "main"        -> <<"m", "a", "i", "n">>
      [] name = "gaming"      -> <<"g", "a", "m", "i", "n", "g">>
      [] name = "work"        -> <<"w", "o", "r", "k">>
      [] name = "home office" -> <<"h", "o", "m", "e", " ", "o", "f", "f", "i", "c", "e">>
      [] name = "bad@name"    -> <<"b", "a", "d", "@", "n", "a", "m", "e">>
      [] name = "nope"        -> <<"n", "o", "p", "e">>
      [] name = LongName      -> [i \in 1..(MAX_PAGE_NAME_LENGTH + 1) |-> "a"]
      [] name = FullName      -> [i \in 1..MAX_PAGE_NAME_LENGTH |-> "a"]
      [] name = "Work_Setup-2025" ->
            <<"W", "o", "r", "k", "_", "S", "e", "t", "u", "p", "-", "2", "0", "2", "5">>
      [] name = "a\tb"        -> <<"a", "\t", "b">>
      [] name = "a\nb"        -> <<"a", "\n", "b">>
      [] name = "a.b"         -> <<"a", ".", "b">>

\* the character class [a-zA-Z0-9_\-\s] of PAGE_NAME_PATTERN
PageNameChars ==
    {"a", "b", "c", "d", "e", "f", "g", "h", "i", "j", "k", "l", "m", "n", "o",
     "p", "q", "r", "s", "t", "u", "v", "w", "x", "y", "z",
     "A", "B", "C", "D", "E", "F", "G", "H", "I", "J", "K", "L", "M", "N", "O",
     "P", "Q", "R", "S", "T", "U", "V", "W", "X", "Y", "Z",
     "0", "1", "2", "3", "4", "5", "6", "7", "8", "9", "_", "-",
     " ", "\t", "\n", "\r", "\f"}

\* _validate_page_name: "none", or the error it raises
validate_page_name(name) ==
    LET cs == CharsOf(name) IN
    IF Len(cs) = 0 THEN "InvalidPageName"
    ELSE IF Len(cs) > MAX_PAGE_NAME_LENGTH THEN "InvalidPageName"
    ELSE IF \E i \in 1..Len(cs) : cs[i] \notin PageNameChars THEN "InvalidPageName"
    ELSE "none"

\* a call on the device handle is answered: the device is there and has not
\* stopped answering (fuel is the number of calls it still answers)
Answers(s) == s.hw = "ok" /\ s.fuel # 0
\* the state after a call the device answered
Called(s) == [s EXCEPT !.fuel = IF @ > 0 THEN @ - 1 ELSE @]

\* _validate_key: the state after it, exc the error it raised; with a handle it
\* asks the device for key_count() (line 176) outside any handler, so what the
\* library raises when the device does not answer leaves the method as it is
validate_key(s, key) ==
    IF key < 0 THEN [s EXCEPT !.exc = "InvalidKey"]
    ELSE IF s.deck = None THEN s
    ELSE IF ~Answers(s) THEN [s EXCEPT !.exc = "DeviceError"]
    ELSE IF key >= KeyCount THEN [Called(s) EXCEPT !.exc = "InvalidKey"]
    ELSE Called(s)

\* int(component), line 220: an int is itself, a float is truncated toward 0
IntOfNumber(x, units) ==
    IF x >= 0 THEN x \div units ELSE 0 - ((0 - x) \div units)

\* _validate_color: the error it raises ("none" when it returns) and the tuple
\* it returns; color is a tuple or a list of ints or floats; the range is
\* tested on int(component) (lines 220-221)
validate_color(color) ==
    LET c == [i \in 1..Len(color.items) |-> IntOfNumber(color.items[i], UnitsOf(color))] IN
    IF Len(c) # 3 THEN [exc |-> "InvalidColor", val |-> PyTuple(<< >>)]
    ELSE IF \E i \in 1..3 : c[i] < 0 \/ c[i] > 255
         THEN [exc |-> "InvalidColor", val |-> PyTuple(<< >>)]
         ELSE [exc |-> "none", val |-> PyTuple(<<c[1], c[2], c[3]>>)]

----------------------------------------------------------------------------
(* Action strings.  An action is an atom; StartsWithPage and AfterPrefix   *)
(* are action.startswith("page:") and action.split(":", 1)[1].             *)

StartsWithPage(a) == a \in {"page:gaming", "page:nope", "page:main"}
AfterPrefix(a) ==
    CASE a = "page:gaming" -> "gaming"
      [] a = "page:nope"   -> "nope"
      [] a = "page:main"   -> "main"

----------------------------------------------------------------------------
(* The state record the methods work on *)

Raise(s, kind) == [s EXCEPT !.exc = kind]
Return(s, v) == [s EXCEPT !.exc = "none", !.ret = v]
Raised(s) == s.exc # "none"

(* Persistence: a file is missing, malformed JSON text, bytes that are no   *)
(* text in the encoding read_text uses, JSON that is no object, or a JSON  *)
(* object (kind "dict", its value in data).                                *)
FileMissing == [kind |-> "missing", data |-> EmptyDict]
FileMalformed == [kind |-> "malformed", data |-> EmptyDict]
FileNotDict == [kind |-> "notdict", data |-> EmptyDict]
FileUndecodable == [kind |-> "undecodable", data |-> EmptyDict]
FileDict(d) == [kind |-> "dict", data |-> d]

\* json.loads(json.dumps(config)) of one ButtonConfig: a tuple comes back as a
\* list, strings, numbers and None come back as they were
json_config(config) ==
    [f \in DOMAIN config |->
        IF f \in {"bg_color", "text_color"} THEN PyList(config[f].items) ELSE config[f]]

\* json.loads(json.dumps(self.pages)): what a reader of PAGES_FILE gets
json_pages(p) ==
    [name \in DOMAIN p |-> [ks \in DOMAIN p[name] |-> json_config(p[name][ks])]]

\* the disk condition of a process that was killed
Dead == "dead"

\* _save_state reading the files back into memory when the write fails
save_state_reloading(s) ==
    LET s1 == [s EXCEPT !.writes = @ + 1]
        back == [s1 EXCEPT
                   !.pages = IF s.diskPages.kind = "dict" /\ "main" \in DOMAIN s.diskPages.data
                             THEN s.diskPages.data ELSE [main |-> EmptyDict],
                   !.button_callbacks = IF s.diskButtons.kind = "dict"
                                        THEN s.diskButtons.data ELSE EmptyDict]
    IN IF s.disk = "ok"
       THEN [s1 EXCEPT !.diskPages = FileDict(json_pages(s.pages)),
                       !.diskButtons = FileDict(s.button_callbacks)]
       ELSE back

\* _save_state: both files are written from memory, the pages file first; a
\* binding holds strings only, which json writes and reads unchanged.  A write
\* that fails raises OSError, which is logged: with disk "denied" the pages
\* file cannot be opened, with "full" it is opened (and so emptied) and the
\* write fails, with "buttons_denied" the pages file is written and the
\* bindings file cannot be opened.  writes counts the calls of _save_state.
\* write_text opens the file for writing, which empties it, and writes the
\* text: a process killed before line 157 has written nothing, one killed
\* within line 157 or 158 leaves that file empty or holding the beginning of
\* the text, which is no JSON document; after that the process is dead.
save_state(s) ==
    LET s1 == [s EXCEPT !.writes = @ + 1]
        killed == [s1 EXCEPT !.disk = Dead]
    IN CASE s.disk = "ok" ->
                [s1 EXCEPT !.diskPages = FileDict(json_pages(s.pages)),
                           !.diskButtons = FileDict(s.button_callbacks)]
         [] s.disk = "denied" -> s1
         [] s.disk = "full" -> [s1 EXCEPT !.diskPages = FileMalformed]
         [] s.disk = "buttons_denied" ->
                [s1 EXCEPT !.diskPages = FileDict(json_pages(s.pages))]
         [] s.disk = "killed_before" -> killed
         [] s.disk = "killed_in_pages" -> [killed EXCEPT !.diskPages = FileMalformed]
         [] s.disk = "killed_between" ->
                [killed EXCEPT !.diskPages = FileDict(json_pages(s.pages))]
         [] s.disk = "killed_in_buttons" ->
                [killed EXCEPT !.diskPages = FileDict(json_pages(s.pages)),
                               !.diskButtons = FileMalformed]
         [] s.disk = Dead -> s

\* load_pages without the test for "main" (line 137)
load_pages_unchecked(file) ==
    IF file.kind = "dict" THEN file.data ELSE [main |-> EmptyDict]

\* _load_state, the pages half: the value of self.pages after it
load_pages(file) ==
    IF file.kind = "dict" /\ "main" \in DOMAIN file.data
    THEN file.data
    ELSE [main |-> EmptyDict]

\* _load_state, the bindings half: the value of self.button_callbacks after it
load_buttons(file) ==
    IF file.kind = "dict" THEN file.data ELSE EmptyDict

\* the exception read_text raises out of _load_state, lines 136 and 146: the
\* handlers catch json.JSONDecodeError and OSError, UnicodeDecodeError is neither
load_error(pagesFile, buttonsFile) ==
    IF pagesFile.kind = "undecodable" \/ buttonsFile.kind = "undecodable"
    THEN "UnicodeDecodeError"
    ELSE "none"

----------------------------------------------------------------------------
(* The device *)

Keys == 0..(KeyCount - 1)

\* image files that exist on the file system
ExistingImages == {"ok.png"}

\* what a key shows: nothing, a scaled image file, or a generated image
Blank == [src |-> "blank", text |-> None, bg |-> << >>, fg |-> << >>, font |-> 0]
FileImage(path) == [src |-> path, text |-> None, bg |-> << >>, fg |-> << >>, font |-> 0]
TextImage(text, bg, fg, font) ==
    IF text \in {None, ""}
    THEN [src |-> "gen", text |-> None, bg |-> bg.items, fg |-> << >>, font |-> 0]
    ELSE [src |-> "gen", text |-> text, bg |-> bg.items, fg |-> fg.items, font |-> font]

AllBlank == [k \in Keys |-> Blank]

\* _check_deck_connected without line 243 (self.deck = None)
check_deck_connected_keep_handle(s) ==
    IF s.deck = None THEN Raise(s, "DeviceNotConnected")
    ELSE IF ~Answers(s) THEN Raise(s, "DeviceDisconnected")
    ELSE Called(s)

\* _check_deck_connected
check_deck_connected(s) ==
    IF s.deck = None THEN Raise(s, "DeviceNotConnected")
    ELSE IF ~Answers(s) THEN Raise([s EXCEPT !.deck = None], "DeviceDisconnected")
    ELSE Called(s)

\* the ButtonConfig set_button_image stores
ButtonConfig(text, image_path, bg, fg, font) ==
    [text |-> text, image_path |-> image_path, bg_color |-> bg,
     text_color |-> fg, font_size |-> font]

\* set_button_image, lines 418-450: the device is asked for its image format,
\* the image is rendered and pushed to the key; a failure of either call on
\* the device is raised as a StreamDeckError by the handler of lines 469-471
push_image(s, key, img) ==
    IF ~Answers(s) THEN Raise(s, "SetButtonFailed")
    ELSE IF ~Answers(Called(s)) THEN Raise(Called(s), "SetButtonFailed")
    ELSE LET s2 == Called(Called(s))
         IN [s2 EXCEPT !.display = [s2.display EXCEPT ![key] = img]]

\* set_button_image storing the validated tuples instead of list(bg_color) and
\* list(text_color) (lines 458-459)
set_button_image_body_tuples(s, key, image_path, text, bg, fg, font, save) ==
    LET useFile == image_path \notin {None, ""} /\ image_path \in ExistingImages
        path == IF useFile THEN image_path ELSE None
        img == IF useFile THEN FileImage(image_path) ELSE TextImage(text, bg, fg, font)
        pushed == push_image(s, key, img)
        page == DictGet(s.pages, s.current_page, EmptyDict)
        s1 == [pushed EXCEPT !.pages = DictSet(s.pages, s.current_page,
                                         DictSet(page, Str(key),
                                                 ButtonConfig(text, path, bg, fg, font)))]
        s2 == IF save THEN save_state(s1) ELSE s1
    IN IF Raised(pushed) THEN pushed ELSE Return(s2, "True")

\* set_button_image storing the ButtonConfig before the image is pushed
set_button_image_body_store_first(s, key, image_path, text, bg, fg, font, save) ==
    LET useFile == image_path \notin {None, ""} /\ image_path \in ExistingImages
        path == IF useFile THEN image_path ELSE None
        img == IF useFile THEN FileImage(image_path) ELSE TextImage(text, bg, fg, font)
        page == DictGet(s.pages, s.current_page, EmptyDict)
        s1 == [s EXCEPT !.pages = DictSet(s.pages, s.current_page,
                                     DictSet(page, Str(key),
                                             ButtonConfig(text, path, PyList(bg.items),
                                                          PyList(fg.items), font)))]
        pushed == push_image(s1, key, img)
        s2 == IF save THEN save_state(pushed) ELSE pushed
    IN IF Raised(pushed) THEN pushed ELSE Return(s2, "True")

\* set_button_image, lines 417-467: render, push, store, save
set_button_image_body(s, key, image_path, text, bg, fg, font, save) ==
    LET useFile == image_path \notin {None, ""} /\ image_path \in ExistingImages
        path == IF useFile THEN image_path ELSE None
        img == IF useFile THEN FileImage(image_path) ELSE TextImage(text, bg, fg, font)
        pushed == push_image(s, key, img)
        page == DictGet(s.pages, s.current_page, EmptyDict)
        s1 == [pushed EXCEPT !.pages = DictSet(s.pages, s.current_page,
                                         DictSet(page, Str(key),
                                                 ButtonConfig(text, path, PyList(bg.items),
                                                              PyList(fg.items), font)))]
        s2 == IF save THEN save_state(s1) ELSE s1
    IN IF Raised(pushed) THEN pushed ELSE Return(s2, "True")

\* set_button_image
set_button_image(s, key, image_path, text, bg_color, text_color, font_size, save) ==
    LET s1 == check_deck_connected(s)
        s2 == validate_key(s1, key)
        bg == validate_color(bg_color)
        fg == validate_color(text_color)
    IN IF Raised(s1) THEN s1
       ELSE IF Raised(s2) THEN s2
       ELSE IF bg.exc # "none" THEN Raise(s2, bg.exc)
       ELSE IF fg.exc # "none" THEN Raise(s2, fg.exc)
       ELSE set_button_image_body(s2, key, image_path, text, bg.val, fg.val, font_size, save)

\* set_button_action beginning with the health check the hardware operations
\* begin with
set_button_action_checked(s, key, action, action_type, save) ==
    LET s0 == validate_key(check_deck_connected(s), key)
    IN IF Raised(check_deck_connected(s)) THEN check_deck_connected(s)
       ELSE IF Raised(s0) THEN s0
       ELSE IF action = "" THEN Raise(s0, "EmptyAction")
       ELSE LET page == DictGet(s0.button_callbacks, s0.current_page, EmptyDict)
                s1 == [s0 EXCEPT !.button_callbacks =
                           DictSet(s0.button_callbacks, s0.current_page,
                                   DictSet(page, Str(key),
                                           [action |-> action, type |-> action_type]))]
                s2 == IF save THEN save_state(s1) ELSE s1
            IN Return(s2, "True")

\* set_button_action
set_button_action(s, key, action, action_type, save) ==
    LET s0 == validate_key(s, key)
    IN IF Raised(s0) THEN s0
       ELSE IF action = "" THEN Raise(s0, "EmptyAction")
       ELSE LET page == DictGet(s0.button_callbacks, s0.current_page, EmptyDict)
                s1 == [s0 EXCEPT !.button_callbacks =
                           DictSet(s0.button_callbacks, s0.current_page,
                                   DictSet(page, Str(key),
                                           [action |-> action, type |-> action_type]))]
                s2 == IF save THEN save_state(s1) ELSE s1
            IN Return(s2, "True")

\* the exceptions the render loop skips: except (ValueError, ValidationError)
IsValidationError(e) ==
    e \in {"InvalidKey", "InvalidColor", "InvalidPageName", "EmptyAction",
           "UnknownPage", "CannotDeleteMain"}

\* the exceptions that are a StreamDeckError (a ValidationError is one); what
\* the device library or the operating system raises is not
IsStreamDeckError(e) ==
    e \notin {"none", "DeviceError", "OSError", "UnicodeDecodeError"}

\* _render_current_page, lines 649-661: the loop over the stored configs.
\* todo is the set of key strings not drawn yet; a StreamDeckError that is no
\* ValidationError leaves the loop (it is caught by the outer handler).
RECURSIVE render_keys(_, _)
render_keys(s, todo) ==
    IF todo = {} THEN s
    ELSE LET ks == CHOOSE x \in todo : TRUE
             config == s.pages[s.current_page][ks]
             r == set_button_image(s, IntOf(ks),
                      DictGet(config, "image_path", None),
                      DictGet(config, "text", None),
                      DictGet(config, "bg_color", DEFAULT_BG_COLOR),
                      DictGet(config, "text_color", DEFAULT_TEXT_COLOR),
                      DictGet(config, "font_size", DefaultFontSize),
                      TRUE)
         IN IF ~IsIntStr(ks) THEN render_keys(s, todo \ {ks})
            ELSE IF ~Raised(r) THEN render_keys(r, todo \ {ks})
            ELSE IF IsValidationError(r.exc) THEN render_keys(Return(r, None), todo \ {ks})
            ELSE r

\* the loop "for key in range(key_count): self.deck.set_key_image(key, None)"
\* of lines 644-645 and 796-797, from key k on: the keys blanked before the
\* device stops answering stay blank
RECURSIVE blank_keys(_, _)
blank_keys(s, k) ==
    IF k >= KeyCount THEN s
    ELSE IF ~Answers(s) THEN Raise(s, "DeviceError")
    ELSE blank_keys([Called(s) EXCEPT !.display = [@ EXCEPT ![k] = Blank]], k + 1)

\* _render_current_page drawing the stored configs without blanking the keys
\* first (lines 644-645)
render_current_page_no_blank(s) ==
    IF s.deck = None THEN s
    ELSE LET page == DictGet(s.pages, s.current_page, EmptyDict)
         IN Return(render_keys(s, DOMAIN page), None)

\* _render_current_page: whatever is raised is logged by the handler of lines
\* 662-663 and the method returns
render_current_page(s) ==
    IF s.deck = None THEN s
    ELSE IF ~Answers(s) THEN s
    ELSE LET s1 == blank_keys(Called(s), 0)
             page == DictGet(s1.pages, s1.current_page, EmptyDict)
         IN IF Raised(s1) THEN Return(s1, None)
            ELSE Return(render_keys(s1, DOMAIN page), None)

----------------------------------------------------------------------------
(* Pages *)

\* create_page without the test for an existing page (lines 611-612)
create_page_overwrite(s, name) ==
    IF validate_page_name(name) # "none" THEN Raise(s, validate_page_name(name))
    ELSE Return(save_state([s EXCEPT !.pages = DictSet(s.pages, name, EmptyDict)]), "True")

\* create_page
create_page(s, name) ==
    IF validate_page_name(name) # "none" THEN Raise(s, validate_page_name(name))
    ELSE IF name \in DOMAIN s.pages THEN Return(s, "False")
    ELSE Return(save_state([s EXCEPT !.pages = DictSet(s.pages, name, EmptyDict)]), "True")

\* switch_page without the test for an unknown page (lines 629-630)
switch_page_unchecked(s, name) ==
    Return(render_current_page([s EXCEPT !.current_page = name]), "True")

\* switch_page
switch_page(s, name) ==
    IF name \notin DOMAIN s.pages THEN Raise(s, "UnknownPage")
    ELSE Return(render_current_page([s EXCEPT !.current_page = name]), "True")

\* delete_page without the test for "main" (lines 710-711)
delete_page_any(s, name) ==
    IF name \notin DOMAIN s.pages THEN Raise(s, "UnknownPage")
    ELSE LET s1 == [s EXCEPT !.pages = DictDel(s.pages, name),
                             !.button_callbacks = DictDel(s.button_callbacks, name)]
             s2 == IF s1.current_page = name /\ name # "main"
                   THEN switch_page(s1, "main") ELSE s1
         IN IF Raised(s2) THEN s2 ELSE Return(save_state(s2), "True")

\* delete_page without the switch to "main" (lines 720-721)
delete_page_keep_current(s, name) ==
    IF name = "main" THEN Raise(s, "CannotDeleteMain")
    ELSE IF name \notin DOMAIN s.pages THEN Raise(s, "UnknownPage")
    ELSE LET s1 == [s EXCEPT !.pages = DictDel(s.pages, name),
                             !.button_callbacks = DictDel(s.button_callbacks, name)]
         IN Return(save_state(s1), "True")

\* delete_page
delete_page(s, name) ==
    IF name = "main" THEN Raise(s, "CannotDeleteMain")
    ELSE IF name \notin DOMAIN s.pages THEN Raise(s, "UnknownPage")
    ELSE LET s1 == [s EXCEPT !.pages = DictDel(s.pages, name),
                             !.button_callbacks = DictDel(s.button_callbacks, name)]
             s2 == IF s1.current_page = name THEN switch_page(s1, "main") ELSE s1
         IN IF Raised(s2) THEN s2 ELSE Return(save_state(s2), "True")

\* clear_button without lines 746-747: the binding of the key is kept
clear_button_body_keep_binding(s, key) ==
    LET ks == Str(key)
        page == DictGet(s.pages, s.current_page, EmptyDict)
        s2 == [Called(s) EXCEPT
                 !.display = [s.display EXCEPT ![key] = Blank],
                 !.pages = IF ks \in DOMAIN page
                           THEN DictSet(s.pages, s.current_page, DictDel(page, ks))
                           ELSE s.pages]
    IN IF ~Answers(s) THEN Raise(s, "ClearButtonFailed")
       ELSE Return(save_state(s2), "True")

\* clear_button, lines 740-751: the key is blanked, its entries are removed,
\* the state is saved
clear_button_body(s, key) ==
    LET ks == Str(key)
        page == DictGet(s.pages, s.current_page, EmptyDict)
        acts == DictGet(s.button_callbacks, s.current_page, EmptyDict)
        s2 == [Called(s) EXCEPT
                 !.display = [s.display EXCEPT ![key] = Blank],
                 !.pages = IF ks \in DOMAIN page
                           THEN DictSet(s.pages, s.current_page, DictDel(page, ks))
                           ELSE s.pages,
                 !.button_callbacks =
                           IF ks \in DOMAIN acts
                           THEN DictSet(s.button_callbacks, s.current_page, DictDel(acts, ks))
                           ELSE s.button_callbacks]
    IN IF ~Answers(s) THEN Raise(s, "ClearButtonFailed")
       ELSE Return(save_state(s2), "True")

\* clear_button
clear_button(s, key) ==
    LET s1 == check_deck_connected(s)
        s2 == validate_key(s1, key)
    IN IF Raised(s1) THEN s1
       ELSE IF Raised(s2) THEN s2
       ELSE clear_button_body(s2, key)

\* clear_all, lines 792-806: the keys are blanked, the entries of the current
\* page are removed, the state is saved; a failure of a call on the device is
\* raised as a StreamDeckError by the handler of lines 807-809
clear_all_body(s) ==
    LET s1 == IF Answers(s) THEN blank_keys(Called(s), 0) ELSE Raise(s, "DeviceError")
        s2 == [s1 EXCEPT
                 !.pages = DictSet(s1.pages, s1.current_page, EmptyDict),
                 !.button_callbacks =
                       IF s1.current_page \in DOMAIN s1.button_callbacks
                       THEN DictSet(s1.button_callbacks, s1.current_page, EmptyDict)
                       ELSE s1.button_callbacks]
    IN IF Raised(s1) THEN Raise(s1, "ClearAllFailed")
       ELSE [Return(save_state(s2), "count") EXCEPT !.count = KeyCount]

\* clear_all without the health check (line 790): without a handle the call
\* of key_count fails inside the try
clear_all_unchecked(s) ==
    IF s.deck = None THEN Raise(s, "ClearAllFailed") ELSE clear_all_body(s)

\* clear_all
clear_all(s) ==
    LET s1 == check_deck_connected(s)
    IN IF Raised(s1) THEN s1 ELSE clear_all_body(s1)

\* set_brightness without the clamp of line 680
set_brightness_unclamped(s, percent) ==
    LET s1 == check_deck_connected(s)
    IN IF Raised(s1) THEN s1
       ELSE IF ~Answers(s1) THEN Raise(s1, "BrightnessFailed")
       ELSE Return([Called(s1) EXCEPT !.brightness = percent,
                                      !.device_brightness = percent], "True")

\* set_brightness: percent is clamped to 0..100 and pushed to the device; the
\* value is remembered after the device took it (lines 683-684)
set_brightness(s, percent) ==
    LET s1 == check_deck_connected(s)
        clamped == IF percent < 0 THEN 0 ELSE IF percent > 100 THEN 100 ELSE percent
    IN IF Raised(s1) THEN s1
       ELSE IF ~Answers(s1) THEN Raise(s1, "BrightnessFailed")
       ELSE Return([Called(s1) EXCEPT !.brightness = clamped,
                                      !.device_brightness = clamped], "True")

----------------------------------------------------------------------------
(* Key presses *)

\* subprocess.Popen(action, shell=True), lines 338-343: the command is handed
\* to the launcher, which starts it (spawn = "ok") or raises OSError
popen(s, action, spawn) ==
    LET s1 == [s EXCEPT !.launched = s.launched \cup {action}]
    IN IF spawn = "ok" THEN Return(s1, None) ELSE Raise(s1, "OSError")

\* the handler of lines 344-345: an exception of the dispatch is logged
\* (cb_error) and not raised
Caught(r) == IF Raised(r) THEN [Return(r, None) EXCEPT !.cb_error = r.exc] ELSE Return(r, None)

\* _key_callback without the test for a release (lines 315-316)
key_callback_any_state(s, key, pressed, spawn) ==
    LET page_buttons == DictGet(s.button_callbacks, s.current_page, EmptyDict)
        button_config == DictGet(page_buttons, Str(key), EmptyDict)
        action == button_config["action"]
        action_type == DictGet(button_config, "type", "command")
    IN IF "action" \notin DOMAIN button_config THEN Return(s, None)
       ELSE IF StartsWithPage(action) THEN Caught(switch_page(s, AfterPrefix(action)))
       ELSE IF action_type = "command" THEN Caught(popen(s, action, spawn))
       ELSE Return(s, None)

\* _key_callback without the handler of lines 344-345
key_callback_uncaught(s, key, pressed, spawn) ==
    LET page_buttons == DictGet(s.button_callbacks, s.current_page, EmptyDict)
        button_config == DictGet(page_buttons, Str(key), EmptyDict)
        action == button_config["action"]
        action_type == DictGet(button_config, "type", "command")
    IN IF ~pressed THEN Return(s, None)
       ELSE IF "action" \notin DOMAIN button_config THEN Return(s, None)
       ELSE IF StartsWithPage(action) THEN switch_page(s, AfterPrefix(action))
       ELSE IF action_type = "command" THEN popen(s, action, spawn)
       ELSE Return(s, None)

\* _key_callback
key_callback(s, key, pressed, spawn) ==
    LET page_buttons == DictGet(s.button_callbacks, s.current_page, EmptyDict)
        button_config == DictGet(page_buttons, Str(key), EmptyDict)
        action == button_config["action"]
        action_type == DictGet(button_config, "type", "command")
    IN IF ~pressed THEN Return(s, None)
       ELSE IF "action" \notin DOMAIN button_config THEN Return(s, None)
       ELSE IF StartsWithPage(action) THEN Caught(switch_page(s, AfterPrefix(action)))
       ELSE IF action_type = "command" THEN Caught(popen(s, action, spawn))
       ELSE Return(s, None)

----------------------------------------------------------------------------
(* Connection *)

\* connect, lines 293-304: the handler of a failure after a device was found
connect_failed(s) ==
    LET n == s.connect_attempts + 1
        s1 == [s EXCEPT !.connect_attempts = n, !.deck = None]
    IN IF n >= MAX_RECONNECT_ATTEMPTS THEN Raise(s1, "ConnectionExhausted")
       ELSE Raise(s1, "OpenFailed")

\* get_deck_info: the device is asked for its layout (line 362) and for its
\* description (lines 363-378); a failure is logged, the handle is dropped and
\* a "connected: False" dictionary is returned
get_deck_info(s) ==
    IF s.deck = None THEN Return(s, "not connected")
    ELSE IF ~Answers(s) THEN Return([s EXCEPT !.deck = None], "not connected")
    ELSE IF ~Answers(Called(s)) THEN Return([Called(s) EXCEPT !.deck = None], "not connected")
    ELSE Return(Called(Called(s)), "info")

\* connect, lines 278-304: open the first device found, reset it, apply the
\* remembered brightness, register the callback, draw the current page
connect_open(s) ==
    LET held == [s EXCEPT !.deck = "deck"]
        opened == Called(held)
        reset == [Called(opened) EXCEPT !.display = AllBlank]
        lit == [Called(reset) EXCEPT !.device_brightness = s.brightness]
        registered == [Called(lit) EXCEPT !.connect_attempts = 0]
        logged == Called(registered)
    IN IF ~Answers(held) THEN connect_failed(held)
       ELSE IF ~Answers(opened) THEN connect_failed(opened)
       ELSE IF ~Answers(reset) THEN connect_failed(reset)
       ELSE IF ~Answers(lit) THEN connect_failed(lit)
       ELSE IF ~Answers(registered) THEN connect_failed(registered)
       ELSE get_deck_info(render_current_page(logged))

\* connect, lines 261-265: the rate limit; the call sleeps RECONNECT_DELAY_BASE
\* when it comes less than that after the time remembered, remembers the time
\* it was made at, and then looks for devices
connect_wait(s) ==
    LET now == s.clock
        woke == IF now - s.last_connect_attempt < Delay THEN now + Delay ELSE now
    IN [s EXCEPT !.clock = woke, !.last_connect_attempt = now, !.last_enumerate = woke]

\* connect
connect(s) ==
    LET s1 == connect_wait(s)
    IN IF s1.hw = "enumfail" THEN Raise(s1, "ScanFailed")
       ELSE IF s1.hw = "none" THEN Raise(s1, "NoDeviceFound")
       ELSE connect_open(s1)

\* disconnect without the finally clause of lines 820-821: the handle is
\* released after reset and close
disconnect_no_finally(s) ==
    IF s.deck = None THEN Return(s, None)
    ELSE IF ~Answers(s) THEN Return(s, None)
    ELSE LET reset == [Called(s) EXCEPT !.display = AllBlank]
         IN IF ~Answers(reset) THEN Return(reset, None)
            ELSE Return([Called(reset) EXCEPT !.deck = None], None)

\* disconnect: reset and close, a failure of either is logged, the handle is
\* released in any case
disconnect(s) ==
    IF s.deck = None THEN Return(s, None)
    ELSE IF ~Answers(s) THEN Return([s EXCEPT !.deck = None], None)
    ELSE LET reset == [Called(s) EXCEPT !.display = AllBlank]
         IN IF ~Answers(reset) THEN Return([reset EXCEPT !.deck = None], None)
            ELSE Return([Called(reset) EXCEPT !.deck = None], None)

----------------------------------------------------------------------------
(* Batches *)

\* set_buttons, lines 588-590: the action of an entry whose image is set; img
\* is the state after line 586, act the state after line 589
set_buttons_bound(img, act, configured) ==
    IF Raised(act) /\ ~IsStreamDeckError(act.exc)
    THEN [s |-> act, configured |-> configured]
    ELSE IF Raised(act) THEN [s |-> Return(act, None), configured |-> configured]
    ELSE [s |-> act, configured |-> configured + 1]

\* set_buttons, lines 586-592: img is the state after set_button_image; an
\* exception that is a StreamDeckError is logged and the entry skipped, any
\* other exception leaves the method
set_buttons_drawn(img, btn, configured, save) ==
    IF Raised(img) /\ ~IsStreamDeckError(img.exc)
    THEN [s |-> img, configured |-> configured]
    ELSE IF Raised(img) THEN [s |-> Return(img, None), configured |-> configured]
    ELSE IF "action" \notin DOMAIN btn THEN [s |-> img, configured |-> configured + 1]
    ELSE set_buttons_bound(img,
                           set_button_action(img, btn.key, btn.action, "command", save),
                           configured)

\* set_buttons, lines 577-592: one entry of the list, its two calls made with
\* the given save_state argument
set_buttons_entry_with(s, btn, configured, save) ==
    IF "key" \notin DOMAIN btn THEN [s |-> s, configured |-> configured]
    ELSE set_buttons_drawn(set_button_image(s, btn.key,
                               DictGet(btn, "image_path", None),
                               DictGet(btn, "text", None),
                               DictGet(btn, "bg_color", DEFAULT_BG_COLOR),
                               DictGet(btn, "text_color", DEFAULT_TEXT_COLOR),
                               DictGet(btn, "font_size", DefaultFontSize),
                               save),
                           btn, configured, save)

\* set_buttons saving the state in every entry (save_state left at its default)
set_buttons_entry_saving(s, btn, configured) ==
    set_buttons_entry_with(s, btn, configured, TRUE)

\* set_buttons, lines 577-592: one entry of the list; configured is the count
\* so far; both calls are made with save_state=False
set_buttons_entry(s, btn, configured) ==
    set_buttons_entry_with(s, btn, configured, FALSE)

\* set_buttons, lines 571-592: what follows an entry; an exception that the
\* handler of line 591 does not catch ends the loop and the call
RECURSIVE set_buttons_loop(_, _, _, _)
set_buttons_next(r, buttons, i) ==
    IF Raised(r.s) THEN r ELSE set_buttons_loop(r.s, buttons, i + 1, r.configured)

\* set_buttons, lines 571-592: the loop, from entry i on
set_buttons_loop(s, buttons, i, configured) ==
    IF i > Len(buttons) THEN [s |-> s, configured |-> configured]
    ELSE set_buttons_next(set_buttons_entry(s, buttons[i], configured), buttons, i)

\* set_buttons, lines 594-597: the state is saved once and the count returned
set_buttons_end(r) ==
    IF Raised(r.s) THEN r.s
    ELSE [Return(save_state(r.s), "count") EXCEPT !.count = r.configured]

\* set_buttons, after the health check of line 569
set_buttons_checked(s1, buttons) ==
    IF Raised(s1) THEN s1 ELSE set_buttons_end(set_buttons_loop(s1, buttons, 1, 0))

\* set_buttons
set_buttons(s, buttons) ==
    set_buttons_checked(check_deck_connected(s), buttons)

----------------------------------------------------------------------------
(* Inputs *)

\* the arguments of set_button_image the caller uses
ImageInputs ==
    { [key |-> 0, image_path |-> None, text |-> "A", bg_color |-> PyTuple(<<0, 0, 255>>)],
      [key |-> KeyCount - 1, image_path |-> "ok.png", text |-> None, bg_color |-> PyTuple(<<0, 0, 0>>)],
      [key |-> 0, image_path |-> "gone.png", text |-> "B", bg_color |-> PyTuple(<<0, 0, 0>>)],
      [key |-> -1, image_path |-> None, text |-> "A", bg_color |-> PyTuple(<<0, 0, 255>>)],
      [key |-> KeyCount, image_path |-> None, text |-> "A", bg_color |-> PyTuple(<<0, 0, 255>>)],
      [key |-> 0, image_path |-> None, text |-> "A", bg_color |-> PyTuple(<<256, 0, 0>>)],
      [key |-> 0, image_path |-> None, text |-> "A", bg_color |-> PyTuple(<<0, 0>>)] }

\* the arguments of set_button_action the caller uses
BindingInputs ==
    { [key |-> 0, action |-> "ls", type |-> "command"],
      [key |-> 0, action |-> "page:gaming", type |-> "page"],
      [key |-> KeyCount - 1, action |-> "page:nope", type |-> "command"],
      [key |-> KeyCount - 1, action |-> "gaming", type |-> "page"],
      [key |-> KeyCount, action |-> "ls", type |-> "command"],
      [key |-> -1, action |-> "ls", type |-> "command"],
      [key |-> 0, action |-> "", type |-> "command"] }

\* the values set_brightness is called with
PercentInputs == {0 - 5, 50, 150}

\* the keys clear_button is called with
KeyInputs == {-1, 0, KeyCount - 1, KeyCount}

\* the entries of the lists passed to set_buttons
BatchEntries ==
    { [key |-> 0, text |-> "A"],
      [key |-> -1, text |-> "A"],
      [key |-> KeyCount - 1, text |-> "B", action |-> "ls"],
      [text |-> "A"],
      [key |-> 0, text |-> "B", action |-> ""] }

\* the lists of at most n different entries of S
RECURSIVE SeqsUpTo(_, _)
SeqsUpTo(S, n) ==
    IF n = 0 THEN {<< >>}
    ELSE LET shorter == SeqsUpTo(S, n - 1)
         IN shorter \cup {Append(q, x) : q \in shorter, x \in S}

BatchInputs ==
    {q \in SeqsUpTo(BatchEntries, MaxBatch) :
        \A i, j \in 1..Len(q) : q[i] = q[j] => i = j}

\* the lists whose entries are all valid
SoundBatches ==
    {q \in BatchInputs :
        \A i \in 1..Len(q) : q[i] \in {[key |-> 0, text |-> "A"],
                                       [key |-> KeyCount - 1, text |-> "B", action |-> "ls"]}}

\* the pages file and the bindings file the program may find at start
FullConfig ==
    ButtonConfig("A", None, PyList(<<0, 0, 255>>), PyList(<<255, 255, 255>>), DefaultFontSize)
DiskInputs ==
    { [pages |-> FileMissing, buttons |-> FileMissing],
      [pages |-> FileMalformed, buttons |-> FileMalformed],
      [pages |-> FileNotDict,
       buttons |-> FileDict([gaming |-> ("0" :> [action |-> "ls", type |-> "command"])])],
      [pages |-> FileDict([gaming |-> EmptyDict]), buttons |-> FileMissing],
      [pages |-> FileDict([main |-> ("0" :> [text |-> "Hello"]), gaming |-> EmptyDict]),
       buttons |-> FileDict([main |-> ("0" :> [action |-> "page:gaming"])])],
      [pages |-> FileDict([main |-> EmptyDict, gaming |-> ("0" :> FullConfig)]),
       buttons |-> FileDict([main |-> ("0" :> [action |-> "page:nope", type |-> "command"]
                                       @@ Str(KeyCount - 1) :> [action |-> "gaming", type |-> "page"]),
                             gaming |-> ("0" :> [action |-> "ls", type |-> "command"])])],
      [pages |-> FileDict([main |-> (Str(KeyCount) :> FullConfig)]),
       buttons |-> FileDict([main |-> (Str(KeyCount) :> [action |-> "ls", type |-> "command"])])],
      [pages |-> FileUndecodable, buttons |-> FileMissing] }

----------------------------------------------------------------------------
(* The state machine *)

St ==
    [deck |-> deck, current_page |-> current_page, pages |-> pages,
     button_callbacks |-> button_callbacks, brightness |-> brightness,
     connect_attempts |-> connect_attempts, display |-> display,
     device_brightness |-> device_brightness, hw |-> hw,
     diskPages |-> diskPages, diskButtons |-> diskButtons, launched |-> launched,
     clock |-> clock, last_connect_attempt |-> last_connect_attempt,
     last_enumerate |-> last_enumerate,
     fuel |-> Forever, disk |-> "ok", writes |-> 0,
     exc |-> "none", ret |-> None, count |-> 0, cb_error |-> "none"]

\* the state a call finds when the device is in condition h
StHw(h) == [St EXCEPT !.hw = h]

\* the state a call finds when the device is in condition h and answers f
\* calls, and the disk is in condition d
StEnv(h, f, d) == [St EXCEPT !.hw = h, !.fuel = f, !.disk = d]

\* the conditions the device may be in when a call uses an open handle
HeldHw == IF deck = None THEN {hw} ELSE {"ok", "none"}
\* the conditions the device may be in when connect looks for it
AnyHw == {"ok", "none", "faulty", "enumfail"}

\* the numbers of calls a device found in condition h answers during an
\* operation that makes at most n calls on the handle: all of them, or, in a
\* run where the device may stop answering during a call, the first k only
Fuels(h, n) ==
    IF environment = "device" /\ h = "ok" THEN (1..(n - 1)) \cup {Forever} ELSE {Forever}

\* the ways a write of _save_state fails (see save_state)
DiskFaults == {"denied", "full", "buttons_denied"}

\* the points of _save_state at which the process may be killed: before the
\* first write, within the write of the pages file, between the two writes,
\* within the write of the bindings file
CrashPoints == {"killed_before", "killed_in_pages", "killed_between", "killed_in_buttons"}

\* the conditions the disk may be in during a call: in a run whose environment
\* is a disk fault, every call finds the disk working or failing in that way
\* the names the caller passes: the validation runs add names at the limits
Names == IF environment = "pure" THEN PageNameInputs ELSE NameInputs

\* the colours passed to _validate_color: tuples and lists of ints, tuples of
\* floats
ColorInputs ==
    { PyTuple(<<255, 128, 0>>), PyList(<<0, 0, 0>>), PyTuple(<<256, 0, 0>>),
      PyTuple(<<0, -1, 0>>), PyTuple(<<255, 128>>), PyTuple(<<255, 128, 0, 0>>),
      PyTuple(<< >>),
      PyFloatTuple(<<0, 1280, 2550>>), PyFloatTuple(<<-5, 0, 0>>),
      PyFloatTuple(<<0, 0, 2559>>), PyFloatTuple(<<-10, 0, 0>>),
      PyFloatTuple(<<0, 2560, 0>>), PyFloatTuple(<<10, 20>>) }

DiskConds ==
    IF environment \in DiskFaults THEN {"ok", environment}
    ELSE IF environment = "crash" THEN {"ok"} \cup CrashPoints
    ELSE {"ok"}

\* the calls on the handle a drawing of the current page makes at most: lines
\* 644, 645 for every key, and 240, 176, 418, 450 for every stored config
RenderCalls == 1 + KeyCount + 4 * KeyCount
\* the calls connect makes at most: lines 280, 281, 282, 283, 286, the
\* drawing of the current page, lines 362 and 363
ConnectCalls == 5 + RenderCalls + 2

NoName == "-"
NoKey == 0 - 9

\* the program's variables take their values from r
Assign(r) ==
    /\ deck' = r.deck
    /\ current_page' = r.current_page
    /\ pages' = r.pages
    /\ button_callbacks' = r.button_callbacks
    /\ brightness' = r.brightness
    /\ connect_attempts' = r.connect_attempts
    /\ display' = r.display
    /\ device_brightness' = r.device_brightness
    /\ hw' = r.hw
    /\ diskPages' = r.diskPages
    /\ diskButtons' = r.diskButtons
    /\ launched' = r.launched
    /\ clock' = r.clock
    /\ last_connect_attempt' = r.last_connect_attempt
    /\ last_enumerate' = r.last_enumerate
    /\ environment' = environment

\* the record of a call: page is the page that was current when it ran, batch
\* the list passed to set_buttons, cb_error the exception _key_callback logged;
\* failed_connects counts the calls of connect that failed since the last one
\* that succeeded, exhausted tells that one of them reported ConnectionExhausted,
\* lost that a call reported DeviceDisconnected since the last connect that
\* succeeded; writes is the number of times the call saved the state, disk
\* the condition the disk was in, percent the argument of set_brightness, held
\* tells that the session held a handle when the call began
OutcomeOf(op, name, key, batch, exc, ret, count) ==
    [op |-> op, name |-> name, key |-> key, batch |-> batch, page |-> current_page,
     exc |-> exc, ret |-> ret, count |-> count, cb_error |-> "none",
     failed_connects |-> last.failed_connects, exhausted |-> last.exhausted,
     lost |-> last.lost, writes |-> 0, disk |-> "ok", percent |-> Unset,
     held |-> deck # None]

Outcome(op, name, key, exc, ret, count) ==
    OutcomeOf(op, name, key, << >>, exc, ret, count)

\* the record rec of a call of op that ended with exc, with the history kept
History(rec, op, exc) ==
    [rec EXCEPT
        !.failed_connects = IF op # "connect" THEN @
                            ELSE IF exc = "none" THEN 0 ELSE @ + 1,
        !.exhausted = IF op # "connect" THEN @
                      ELSE IF exc = "none" THEN FALSE
                      ELSE @ \/ exc = "ConnectionExhausted",
        !.lost = IF exc = "DeviceDisconnected" THEN TRUE
                 ELSE IF op = "connect" /\ exc = "none" THEN FALSE
                 ELSE @]

\* the state after a call that ended in r
Becomes(r, op, name, key) ==
    /\ Assign(r)
    /\ last' = History([Outcome(op, name, key, r.exc, r.ret, r.count) EXCEPT
                            !.cb_error = r.cb_error, !.writes = r.writes,
                            !.disk = r.disk], op, r.exc)
    /\ callsLeft' = callsLeft - 1

\* __init__: the state after construction, from the files found on disk, at
\* the start of a run of the given number of calls; when __init__ raises, the
\* module-level StreamDeckState() fails and the server takes no call
InitIn(env, calls) ==
    /\ \E d \in DiskInputs : diskPages = d.pages /\ diskButtons = d.buttons
    /\ environment = env
    /\ device_brightness = Unset
    /\ deck = None
    /\ current_page = "main"
    /\ pages = load_pages(diskPages)
    /\ button_callbacks = load_buttons(diskButtons)
    /\ brightness = DefaultBrightness
    /\ connect_attempts = 0
    /\ display = AllBlank
    /\ hw = "ok"
    /\ launched = {}
    /\ clock = Delay
    /\ last_connect_attempt = 0
    /\ last_enumerate = Never
    /\ last = [op |-> "init", name |-> NoName, key |-> NoKey, batch |-> << >>,
               page |-> "main", exc |-> load_error(diskPages, diskButtons),
               ret |-> None, count |-> 0, cb_error |-> "none",
               failed_connects |-> 0, exhausted |-> FALSE, lost |-> FALSE,
               writes |-> 0, disk |-> "ok", percent |-> Unset, held |-> FALSE]
    /\ callsLeft = IF load_error(diskPages, diskButtons) = "none" THEN calls ELSE 0
    /\ callerPc = "idle"
    /\ callerArg = NoName
    /\ cbPc = "idle"
    /\ cbArg = NoName

\* a run in which the device keeps its condition during a call and the disk
\* takes every write
InitFor(calls) == InitIn("steady", calls)

Init == InitFor(MaxOps)

\* the lists set_buttons is called with: in a run where the device or the
\* disk may fail during the call, the lists of valid entries
Batches == IF environment = "steady" THEN BatchInputs ELSE SoundBatches

Idle == callerPc = "idle" /\ cbPc = "idle"
CanCall == Idle /\ callsLeft > 0 /\ last.disk # Dead

Connect ==
    /\ CanCall
    /\ \E h \in AnyHw : \E f \in Fuels(h, ConnectCalls), d \in DiskConds :
            Becomes(connect(StEnv(h, f, d)), "connect", NoName, NoKey)
    /\ UNCHANGED concVars

Disconnect ==
    /\ CanCall
    /\ \E h \in HeldHw : \E f \in Fuels(h, 2) :
            Becomes(disconnect(StEnv(h, f, "ok")), "disconnect", NoName, NoKey)
    /\ UNCHANGED concVars

CreatePage ==
    /\ CanCall
    /\ \E name \in Names, d \in DiskConds :
            Becomes(create_page(StEnv(hw, Forever, d), name), "create_page", name, NoKey)
    /\ UNCHANGED concVars

SwitchPage ==
    /\ CanCall
    /\ \E name \in ValidNames \cup {"nope"}, h \in HeldHw :
         \E f \in Fuels(h, RenderCalls), d \in DiskConds :
            Becomes(switch_page(StEnv(h, f, d), name), "switch_page", name, NoKey)
    /\ UNCHANGED concVars

DeletePage ==
    /\ CanCall
    /\ \E name \in ValidNames \cup {"nope"}, h \in HeldHw :
         \E f \in Fuels(h, RenderCalls), d \in DiskConds :
            Becomes(delete_page(StEnv(h, f, d), name), "delete_page", name, NoKey)
    /\ UNCHANGED concVars

SetButton ==
    /\ CanCall
    /\ \E a \in ImageInputs, h \in HeldHw : \E f \in Fuels(h, 4), d \in DiskConds :
            Becomes(set_button_image(StEnv(h, f, d), a.key, a.image_path, a.text, a.bg_color,
                                     DEFAULT_TEXT_COLOR, DefaultFontSize, TRUE),
                    "set_button", NoName, a.key)
    /\ UNCHANGED concVars

SetAction ==
    /\ CanCall
    /\ \E a \in BindingInputs, h \in HeldHw, d \in DiskConds :
            Becomes(set_button_action(StEnv(h, Forever, d), a.key, a.action, a.type, TRUE),
                    "set_action", a.action, a.key)
    /\ UNCHANGED concVars

SetButtons ==
    /\ CanCall
    /\ \E buttons \in Batches, h \in HeldHw :
         \E f \in Fuels(h, 1 + 5 * Len(buttons)), d \in DiskConds :
         LET r == set_buttons(StEnv(h, f, d), buttons)
         IN /\ Assign(r)
            /\ last' = History([OutcomeOf("set_buttons", NoName, NoKey, buttons,
                                           r.exc, r.ret, r.count) EXCEPT
                                    !.writes = r.writes, !.disk = r.disk],
                                "set_buttons", r.exc)
            /\ callsLeft' = callsLeft - 1
    /\ UNCHANGED concVars

ClearButton ==
    /\ CanCall
    /\ \E key \in KeyInputs, h \in HeldHw : \E f \in Fuels(h, 3), d \in DiskConds :
            Becomes(clear_button(StEnv(h, f, d), key), "clear_button", NoName, key)
    /\ UNCHANGED concVars

ClearAll ==
    /\ CanCall
    /\ \E h \in HeldHw : \E f \in Fuels(h, 2 + KeyCount), d \in DiskConds :
            Becomes(clear_all(StEnv(h, f, d)), "clear_all", NoName, NoKey)
    /\ UNCHANGED concVars

SetBrightness ==
    /\ CanCall
    /\ \E percent \in PercentInputs, h \in HeldHw : \E f \in Fuels(h, 2) :
         LET r == set_brightness(StEnv(h, f, "ok"), percent)
         IN /\ Assign(r)
            /\ last' = History([Outcome("set_brightness", NoName, NoKey, r.exc, r.ret, 0)
                                    EXCEPT !.percent = percent], "set_brightness", r.exc)
            /\ callsLeft' = callsLeft - 1
    /\ UNCHANGED concVars

\* the device transport delivers a key event of the open device
KeyEvent ==
    /\ CanCall
    /\ deck # None
    /\ \E key \in Keys, pressed \in BOOLEAN, spawn \in {"ok", "fail"}, d \in DiskConds :
            Becomes(key_callback(StEnv("ok", Forever, d), key, pressed, spawn),
                    IF pressed THEN "key_press" ELSE "key_release", NoName, key)
    /\ UNCHANGED concVars

Next ==
    \/ Connect
    \/ Disconnect
    \/ CreatePage
    \/ SwitchPage
    \/ DeletePage
    \/ SetButton
    \/ SetAction
    \/ SetButtons
    \/ ClearButton
    \/ ClearAll
    \/ SetBrightness
    \/ KeyEvent

Spec == Init /\ [][Next]_vars

\* the connection and the operations on single buttons, in longer runs, with
\* the time that passes between calls: a run can fail to connect
\* MAX_RECONNECT_ATTEMPTS times and connect again, or connect, lose the device,
\* use it and connect again
InitConnect == InitFor(MaxConnectOps)

\* a tick passes while no call is running
Tick ==
    /\ CanCall
    /\ clock < Delay + MaxTicks
    /\ clock' = clock + 1
    /\ UNCHANGED <<deck, current_page, pages, button_callbacks, brightness,
                   connect_attempts, display, hw, device_brightness, environment, diskPages, diskButtons, launched,
                   last_connect_attempt, last_enumerate, last, callsLeft, concVars>>

NextConnect ==
    \/ Connect
    \/ Disconnect
    \/ SetButton
    \/ ClearButton
    \/ ClearAll
    \/ SetBrightness
    \/ Tick

SpecConnect == InitConnect /\ [][NextConnect]_vars

\* the page operations alone, in longer runs: a run can connect, switch to a
\* page and then change it
InitPages == InitFor(MaxPageOps)

NextPages ==
    \/ Connect
    \/ CreatePage
    \/ SwitchPage
    \/ DeletePage
    \/ KeyEvent

SpecPages == InitPages /\ [][NextPages]_vars

\* the operations on the device, in runs where the device may stop answering
\* between any two calls the operation makes on its handle
InitDevice == InitIn("device", MaxDeviceOps)

NextDevice ==
    \/ Connect
    \/ Disconnect
    \/ SetButton
    \/ SetButtons
    \/ SetBrightness

SpecDevice == InitDevice /\ [][NextDevice]_vars

\* the operations that save the state, in runs where a write may fail
InitDisk == \E e \in DiskFaults : InitIn(e, MaxDiskOps)

NextDisk ==
    \/ Connect
    \/ CreatePage
    \/ DeletePage
    \/ SetButton
    \/ SetButtons
    \/ SetAction
    \/ ClearButton
    \/ ClearAll

SpecDisk == InitDisk /\ [][NextDisk]_vars

\* the process that was killed is started again: the module-level
\* StreamDeckState() runs __init__, which reads the two files; the device
\* shows what it showed
Restart ==
    /\ Idle /\ last.disk = Dead
    /\ load_error(diskPages, diskButtons) = "none"
    /\ deck' = None
    /\ current_page' = "main"
    /\ pages' = load_pages(diskPages)
    /\ button_callbacks' = load_buttons(diskButtons)
    /\ brightness' = DefaultBrightness
    /\ connect_attempts' = 0
    /\ last_connect_attempt' = 0
    /\ last_enumerate' = Never
    /\ last' = [Outcome("restart", NoName, NoKey, "none", None, 0) EXCEPT
                    !.failed_connects = 0, !.exhausted = FALSE, !.lost = FALSE,
                    !.held = FALSE]
    /\ UNCHANGED <<display, device_brightness, hw, diskPages, diskButtons, launched,
                   clock, environment, callsLeft, concVars>>

\* the operations that save the state without a device, in runs where the
\* process may be killed during a save and is started again
InitCrash == InitIn("crash", MaxCrashOps)

NextCrash ==
    \/ CreatePage
    \/ SwitchPage
    \/ DeletePage
    \/ SetAction
    \/ Restart

SpecCrash == InitCrash /\ [][NextCrash]_vars

\* _validate_color called with a colour: last.batch holds the argument and
\* the tuple returned
ValidateColor ==
    /\ CanCall
    /\ \E color \in ColorInputs :
          last' = [Outcome("validate_color", NoName, NoKey,
                           validate_color(color).exc, None, 0) EXCEPT
                      !.batch = <<[color |-> color, val |-> validate_color(color).val]>>]
    /\ callsLeft' = callsLeft - 1
    /\ UNCHANGED <<progVars, concVars>>

\* _validate_page_name called with a name
ValidatePageName ==
    /\ CanCall
    /\ \E name \in Names :
          last' = Outcome("validate_page_name", name, NoKey,
                          validate_page_name(name), None, 0)
    /\ callsLeft' = callsLeft - 1
    /\ UNCHANGED <<progVars, concVars>>

\* the validation functions on inputs at their limits, and create_page
InitPure == InitIn("pure", MaxPureOps)

NextPure ==
    \/ ValidateColor
    \/ ValidatePageName
    \/ CreatePage

SpecPure == InitPure /\ [][NextPure]_vars

----------------------------------------------------------------------------
(* Two threads.  The caller runs switch_page, delete_page and create_page  *)
(* statement by statement; the reader thread of the device transport runs  *)
(* _key_callback statement by statement.  The code takes no lock.          *)

CallerNames == ValidNames \cup {"nope"}

\* the caller calls switch_page(name), delete_page(name) or create_page(name)
CallerStart ==
    /\ callerPc = "idle"
    /\ callsLeft > 0
    /\ \E name \in CallerNames, pc \in {"sw_check", "del_check", "cr_check"} :
            callerPc' = pc /\ callerArg' = name
    /\ callsLeft' = callsLeft - 1
    /\ UNCHANGED <<progVars, last, cbPc, cbArg>>

\* the page switch_page is switching to: delete_page calls switch_page("main")
SwTarget == IF callerPc \in {"dsw_check", "dsw_assign", "dsw_render"} THEN "main" ELSE callerArg

\* switch_page, line 629
SwCheck ==
    /\ callerPc \in {"sw_check", "dsw_check"}
    /\ IF SwTarget \in DOMAIN pages
       THEN /\ callerPc' = IF callerPc = "sw_check" THEN "sw_assign" ELSE "dsw_assign"
            /\ UNCHANGED last
       ELSE /\ callerPc' = "idle"
            /\ last' = Outcome(IF callerPc = "sw_check" THEN "switch_page" ELSE "delete_page",
                               callerArg, NoKey, "UnknownPage", None, 0)
    /\ UNCHANGED <<progVars, callsLeft, callerArg, cbPc, cbArg>>

\* switch_page, line 632
SwAssign ==
    /\ callerPc \in {"sw_assign", "dsw_assign"}
    /\ current_page' = SwTarget
    /\ callerPc' = IF callerPc = "sw_assign" THEN "sw_render" ELSE "dsw_render"
    /\ UNCHANGED <<deck, pages, button_callbacks, brightness, connect_attempts, display,
                   hw, device_brightness, environment, diskPages, diskButtons, launched, clock, last_connect_attempt, last_enumerate, last, callsLeft, callerArg, cbPc, cbArg>>

\* switch_page, lines 633-635
SwRender ==
    /\ callerPc \in {"sw_render", "dsw_render"}
    /\ \E h \in HeldHw : Assign(render_current_page(StHw(h)))
    /\ IF callerPc = "sw_render"
       THEN /\ callerPc' = "idle"
            /\ last' = Outcome("switch_page", callerArg, NoKey, "none", "True", 0)
       ELSE /\ callerPc' = "del_save"
            /\ UNCHANGED last
    /\ UNCHANGED <<callsLeft, callerArg, cbPc, cbArg>>

\* delete_page, lines 710-714
DelCheck ==
    /\ callerPc = "del_check"
    /\ IF callerArg = "main"
       THEN /\ callerPc' = "idle"
            /\ last' = Outcome("delete_page", callerArg, NoKey, "CannotDeleteMain", None, 0)
       ELSE IF callerArg \notin DOMAIN pages
       THEN /\ callerPc' = "idle"
            /\ last' = Outcome("delete_page", callerArg, NoKey, "UnknownPage", None, 0)
       ELSE /\ callerPc' = "del_pages"
            /\ UNCHANGED last
    /\ UNCHANGED <<progVars, callsLeft, callerArg, cbPc, cbArg>>

\* delete_page, line 716
DelPages ==
    /\ callerPc = "del_pages"
    /\ pages' = DictDel(pages, callerArg)
    /\ callerPc' = "del_callbacks"
    /\ UNCHANGED <<deck, current_page, button_callbacks, brightness, connect_attempts,
                   display, hw, device_brightness, environment, diskPages, diskButtons, launched, clock, last_connect_attempt, last_enumerate, last, callsLeft,
                   callerArg, cbPc, cbArg>>

\* delete_page, lines 717-718
DelCallbacks ==
    /\ callerPc = "del_callbacks"
    /\ button_callbacks' = DictDel(button_callbacks, callerArg)
    /\ callerPc' = "del_current"
    /\ UNCHANGED <<deck, current_page, pages, brightness, connect_attempts,
                   display, hw, device_brightness, environment, diskPages, diskButtons, launched, clock, last_connect_attempt, last_enumerate, last, callsLeft,
                   callerArg, cbPc, cbArg>>

\* delete_page, lines 720-721
DelCurrent ==
    /\ callerPc = "del_current"
    /\ callerPc' = IF current_page = callerArg THEN "dsw_check" ELSE "del_save"
    /\ UNCHANGED <<progVars, last, callsLeft, callerArg, cbPc, cbArg>>

\* delete_page, lines 723-725
DelSave ==
    /\ callerPc = "del_save"
    /\ Assign(save_state(St))
    /\ callerPc' = "idle"
    /\ last' = Outcome("delete_page", callerArg, NoKey, "none", "True", 0)
    /\ UNCHANGED <<callsLeft, callerArg, cbPc, cbArg>>

\* create_page, lines 609-612
CrCheck ==
    /\ callerPc = "cr_check"
    /\ IF validate_page_name(callerArg) # "none"
       THEN /\ callerPc' = "idle"
            /\ last' = Outcome("create_page", callerArg, NoKey,
                               validate_page_name(callerArg), None, 0)
       ELSE IF callerArg \in DOMAIN pages
       THEN /\ callerPc' = "idle"
            /\ last' = Outcome("create_page", callerArg, NoKey, "none", "False", 0)
       ELSE /\ callerPc' = "cr_assign"
            /\ UNCHANGED last
    /\ UNCHANGED <<progVars, callsLeft, callerArg, cbPc, cbArg>>

\* create_page, line 614
CrAssign ==
    /\ callerPc = "cr_assign"
    /\ pages' = DictSet(pages, callerArg, EmptyDict)
    /\ callerPc' = "cr_save"
    /\ UNCHANGED <<deck, current_page, button_callbacks, brightness, connect_attempts,
                   display, hw, device_brightness, environment, diskPages, diskButtons, launched, clock, last_connect_attempt, last_enumerate, last, callsLeft,
                   callerArg, cbPc, cbArg>>

\* create_page, lines 615-617
CrSave ==
    /\ callerPc = "cr_save"
    /\ Assign(save_state(St))
    /\ callerPc' = "idle"
    /\ last' = Outcome("create_page", callerArg, NoKey, "none", "True", 0)
    /\ UNCHANGED <<callsLeft, callerArg, cbPc, cbArg>>

\* _key_callback, lines 315-343: the reader thread delivers a key event; the
\* binding is looked up, a command is launched, a page switch is begun
CbLookup ==
    /\ cbPc = "idle"
    /\ deck # None
    /\ callsLeft > 0
    /\ \E key \in Keys, pressed \in BOOLEAN :
         LET page_buttons == DictGet(button_callbacks, current_page, EmptyDict)
             button_config == DictGet(page_buttons, Str(key), EmptyDict)
             action == button_config["action"]
             action_type == DictGet(button_config, "type", "command")
         IN IF ~pressed \/ "action" \notin DOMAIN button_config
            THEN UNCHANGED <<launched, cbPc, cbArg>>
            ELSE IF StartsWithPage(action)
            THEN cbPc' = "cb_check" /\ cbArg' = AfterPrefix(action) /\ UNCHANGED launched
            ELSE IF action_type = "command"
            THEN launched' = launched \cup {action} /\ UNCHANGED <<cbPc, cbArg>>
            ELSE UNCHANGED <<launched, cbPc, cbArg>>
    /\ callsLeft' = callsLeft - 1
    /\ UNCHANGED <<deck, current_page, pages, button_callbacks, brightness,
                   connect_attempts, display, hw, device_brightness, environment, diskPages, diskButtons,
                   clock, last_connect_attempt, last_enumerate, last,
                   callerPc, callerArg>>

\* switch_page called by _key_callback, line 629; the error is caught at line 344
CbCheck ==
    /\ cbPc = "cb_check"
    /\ cbPc' = IF cbArg \in DOMAIN pages THEN "cb_assign" ELSE "idle"
    /\ UNCHANGED <<progVars, last, callsLeft, callerPc, callerArg, cbArg>>

\* switch_page called by _key_callback, line 632
CbAssign ==
    /\ cbPc = "cb_assign"
    /\ current_page' = cbArg
    /\ cbPc' = "cb_render"
    /\ UNCHANGED <<deck, pages, button_callbacks, brightness, connect_attempts, display,
                   hw, device_brightness, environment, diskPages, diskButtons, launched, clock, last_connect_attempt, last_enumerate, last, callsLeft, callerPc, callerArg, cbArg>>

\* switch_page called by _key_callback, lines 633-635
CbRender ==
    /\ cbPc = "cb_render"
    /\ \E h \in HeldHw : Assign(render_current_page(StHw(h)))
    /\ cbPc' = "idle"
    /\ UNCHANGED <<last, callsLeft, callerPc, callerArg, cbArg>>

NextConc ==
    \/ Connect
    \/ CallerStart
    \/ SwCheck
    \/ SwAssign
    \/ SwRender
    \/ DelCheck
    \/ DelPages
    \/ DelCallbacks
    \/ DelCurrent
    \/ DelSave
    \/ CrCheck
    \/ CrAssign
    \/ CrSave
    \/ CbLookup
    \/ CbCheck
    \/ CbAssign
    \/ CbRender

InitConc == InitFor(MaxPageOps)

SpecConc == InitConc /\ [][NextConc]_vars

----------------------------------------------------------------------------
(* set_button and set_action statement by statement, with the reader thread *)

\* the text set_button is called with and the command set_action is called with
RaceText == "A"
RaceCommand == "ls"

\* the ButtonConfig of the call of set_button, lines 457-463
RaceConfig ==
    ButtonConfig(RaceText, None, PyList(DEFAULT_BG_COLOR.items),
                 PyList(DEFAULT_TEXT_COLOR.items), DefaultFontSize)

\* a tool call of set_button or set_action begins: callerArg keeps the key, the
\* page that is current now and, once the image is pushed, the page that was
\* current then
ButtonStart ==
    /\ Idle
    /\ callsLeft > 0
    /\ \E pc \in {"sb_check", "sa_check"}, key \in Keys :
            /\ callerPc' = pc
            /\ callerArg' = [key |-> key, page |-> current_page, shown |-> NoName]
    /\ callsLeft' = callsLeft - 1
    /\ UNCHANGED <<progVars, last, cbPc, cbArg>>

\* set_button_image, lines 409-412
SbCheck ==
    /\ callerPc = "sb_check"
    /\ LET s1 == check_deck_connected(St)
           s2 == validate_key(s1, callerArg.key)
           r == IF Raised(s1) THEN s1 ELSE s2
       IN /\ Assign(r)
          /\ IF Raised(r)
             THEN /\ callerPc' = "idle"
                  /\ last' = Outcome("set_button", NoName, callerArg.key, r.exc, None, 0)
             ELSE /\ callerPc' = "sb_push"
                  /\ UNCHANGED last
    /\ UNCHANGED <<callsLeft, callerArg, cbPc, cbArg>>

\* set_button_image, lines 417-450: the image goes to the display
SbPush ==
    /\ callerPc = "sb_push"
    /\ \E h \in HeldHw :
         LET img == TextImage(RaceText, DEFAULT_BG_COLOR, DEFAULT_TEXT_COLOR, DefaultFontSize)
             r == push_image(StHw(h), callerArg.key, img)
         IN /\ Assign(r)
            /\ IF Raised(r)
               THEN /\ callerPc' = "idle"
                    /\ last' = Outcome("set_button", NoName, callerArg.key, r.exc, None, 0)
                    /\ UNCHANGED callerArg
               ELSE /\ callerPc' = "sb_ensure"
                    /\ callerArg' = [callerArg EXCEPT !.shown = current_page]
                    /\ UNCHANGED last
    /\ UNCHANGED <<callsLeft, cbPc, cbArg>>

\* set_button_image, lines 454-455
SbEnsure ==
    /\ callerPc = "sb_ensure"
    /\ Assign([St EXCEPT !.pages = IF current_page \in DOMAIN pages THEN pages
                                   ELSE DictSet(pages, current_page, EmptyDict)])
    /\ callerPc' = "sb_store"
    /\ UNCHANGED <<last, callsLeft, callerArg, cbPc, cbArg>>

\* set_button_image, lines 457-463: self.current_page is read again; a KeyError
\* is raised as a StreamDeckError by the handler of lines 469-471
SbStore ==
    /\ callerPc = "sb_store"
    /\ IF current_page \in DOMAIN pages
       THEN /\ Assign([St EXCEPT !.pages =
                          DictSet(pages, current_page,
                                  DictSet(pages[current_page], Str(callerArg.key),
                                          RaceConfig))])
            /\ callerPc' = "sb_save"
            /\ UNCHANGED last
       ELSE /\ callerPc' = "idle"
            /\ last' = Outcome("set_button", NoName, callerArg.key, "SetButtonFailed", None, 0)
            /\ UNCHANGED progVars
    /\ UNCHANGED <<callsLeft, callerArg, cbPc, cbArg>>

\* set_button_image, lines 464-467
SbSave ==
    /\ callerPc = "sb_save"
    /\ Assign(save_state(St))
    /\ callerPc' = "idle"
    /\ last' = Outcome("set_button", NoName, callerArg.key, "none", "True", 0)
    /\ UNCHANGED <<callsLeft, callerArg, cbPc, cbArg>>

\* set_button_action, lines 534-537
SaCheck ==
    /\ callerPc = "sa_check"
    /\ LET r == validate_key(St, callerArg.key)
       IN /\ Assign(r)
          /\ IF Raised(r)
             THEN /\ callerPc' = "idle"
                  /\ last' = Outcome("set_action", NoName, callerArg.key, r.exc, None, 0)
             ELSE /\ callerPc' = "sa_ensure"
                  /\ UNCHANGED last
    /\ UNCHANGED <<callsLeft, callerArg, cbPc, cbArg>>

\* set_button_action, lines 539-540
SaEnsure ==
    /\ callerPc = "sa_ensure"
    /\ Assign([St EXCEPT !.button_callbacks =
                  IF current_page \in DOMAIN button_callbacks THEN button_callbacks
                  ELSE DictSet(button_callbacks, current_page, EmptyDict)])
    /\ callerPc' = "sa_store"
    /\ UNCHANGED <<last, callsLeft, callerArg, cbPc, cbArg>>

\* set_button_action, lines 542-545: self.current_page is read again; no
\* handler surrounds the statement, a KeyError leaves the method as it is
SaStore ==
    /\ callerPc = "sa_store"
    /\ IF current_page \in DOMAIN button_callbacks
       THEN /\ Assign([St EXCEPT !.button_callbacks =
                          DictSet(button_callbacks, current_page,
                                  DictSet(button_callbacks[current_page],
                                          Str(callerArg.key),
                                          [action |-> RaceCommand, type |-> "command"]))])
            /\ callerPc' = "sa_save"
            /\ UNCHANGED last
       ELSE /\ callerPc' = "idle"
            /\ last' = Outcome("set_action", NoName, callerArg.key, "KeyError", None, 0)
            /\ UNCHANGED progVars
    /\ UNCHANGED <<callsLeft, callerArg, cbPc, cbArg>>

\* set_button_action, lines 546-550
SaSave ==
    /\ callerPc = "sa_save"
    /\ Assign(save_state(St))
    /\ callerPc' = "idle"
    /\ last' = Outcome("set_action", NoName, callerArg.key, "none", "True", 0)
    /\ UNCHANGED <<callsLeft, callerArg, cbPc, cbArg>>

NextRace ==
    \/ Connect
    \/ ButtonStart
    \/ SbCheck
    \/ SbPush
    \/ SbEnsure
    \/ SbStore
    \/ SbSave
    \/ SaCheck
    \/ SaEnsure
    \/ SaStore
    \/ SaSave
    \/ CbLookup
    \/ CbCheck
    \/ CbAssign
    \/ CbRender

InitRace == InitFor(MaxPageOps)

SpecRace == InitRace /\ [][NextRace]_vars

----------------------------------------------------------------------------
(* Properties *)

\* this step is a call of op (every call takes one from callsLeft and records itself in last)
Step(op) == callsLeft' = callsLeft - 1 /\ last'.op = op

\* the bindings of the current page
CurrentBindings == DictGet(button_callbacks, current_page, EmptyDict)
\* the button configs of the current page
CurrentConfigs == DictGet(pages, current_page, EmptyDict)

\* C1: in every reachable state, whatever the files found at start and whatever
\* calls and key events followed, the page set contains "main".
C1_MainAlwaysExists == "main" \in DOMAIN pages

\* C1 witness: a page was deleted in a run that began with a pages file the
\* program did not accept.
C1_Witness ==
    /\ last.op = "delete_page" /\ last.exc = "none"
    /\ diskPages.kind = "dict"
    /\ "main" \in DOMAIN pages

\* C2: current_page names a page of the page set whenever no call is running,
\* also after a key-event page switch ran on the reader thread while
\* delete_page or switch_page was in progress.
C2_CurrentPageExists == Idle => current_page \in DOMAIN pages

\* C3: while a device is connected every key with a ButtonConfig or an
\* ActionBinding on the current page is a key of the device.
C3_KeysInRange ==
    deck # None =>
        \A ks \in (DOMAIN CurrentConfigs) \cup (DOMAIN CurrentBindings) :
            IsIntStr(ks) /\ IntOf(ks) >= 0 /\ IntOf(ks) < KeyCount

\* C4: the key-event handler and a caller's operation never run at the same
\* time: no statement of one runs between two statements of the other.
C4_Serialized == ~(callerPc # "idle" /\ cbPc # "idle")

\* C5: delete_page("main") fails with CannotDeleteMain in every state and
\* leaves the page set, the bindings and current_page unchanged.
C5_DeleteMainFails ==
    [][(Step("delete_page") /\ last'.name = "main") =>
            /\ last'.exc = "CannotDeleteMain"
            /\ pages' = pages
            /\ button_callbacks' = button_callbacks
            /\ current_page' = current_page]_vars

\* C5 witness: delete_page("main") was refused while another page was current.
C5_Witness ==
    /\ last.op = "delete_page" /\ last.name = "main"
    /\ last.exc = "CannotDeleteMain"
    /\ current_page # "main"

\* C6: switch_page(name) with a name that is no page fails with UnknownPage
\* and leaves current_page, the page set and the display unchanged.
C6_SwitchUnknownFails ==
    [][(Step("switch_page") /\ last'.name \notin DOMAIN pages) =>
            /\ last'.exc = "UnknownPage"
            /\ current_page' = current_page
            /\ pages' = pages
            /\ display' = display]_vars

\* C6 witness: switch_page of an unknown page was refused while the device
\* showed a button.
C6_Witness ==
    /\ last.op = "switch_page" /\ last.exc = "UnknownPage"
    /\ deck # None
    /\ display # AllBlank

\* C7: delete_page(p) of the current page p, p not "main", succeeds; afterwards
\* current_page is "main" and p is no page, with or without a device.
C7_DeleteCurrentSwitchesToMain ==
    [][(Step("delete_page") /\ last'.name # "main" /\ last'.name = current_page) =>
            /\ last'.exc = "none" /\ last'.ret = "True"
            /\ current_page' = "main"
            /\ last'.name \notin DOMAIN pages']_vars

\* C7 witness: the current page was deleted while a device was connected.
C7_Witness ==
    /\ last.op = "delete_page" /\ last.exc = "none"
    /\ last.page = last.name
    /\ deck # None

\* C8: create_page(n) with a valid name returns True and adds the empty page n
\* when n is absent; it returns False and changes nothing when n exists, so a
\* second call leaves the state of the first.
C8_Step ==
    (Step("create_page") /\ last'.name \in ValidNames) =>
        /\ last'.exc = "none"
        /\ IF last'.name \in DOMAIN pages
           THEN /\ last'.ret = "False"
                /\ pages' = pages
                /\ button_callbacks' = button_callbacks
                /\ UNCHANGED <<current_page, deck, display, diskPages, diskButtons>>
           ELSE /\ last'.ret = "True"
                /\ pages' = DictSet(pages, last'.name, EmptyDict)
                /\ button_callbacks' = button_callbacks
\* a second create_page(n) returns False and leaves the state of the first
C8_Twice ==
    \A n \in ValidNames :
        LET once == create_page(St, n)
            twice == create_page(once, n)
        IN /\ twice.ret = "False"
           /\ twice = [once EXCEPT !.ret = "False"]
C8_CreatePageIdempotent == [][C8_Step]_vars /\ []C8_Twice

\* C8 witness: create_page returned False for a page that has a ButtonConfig.
C8_Witness ==
    /\ last.op = "create_page" /\ last.ret = "False"
    /\ pages[last.name] # EmptyDict

\* set_buttons, the count C9 states: the entries, from entry i on, whose
\* ButtonConfig is stored
RECURSIVE StoredEntries(_, _, _)
StoredEntries(s, buttons, i) ==
    IF i > Len(buttons) THEN 0
    ELSE LET btn == buttons[i]
             img == set_button_image(s, btn.key,
                        DictGet(btn, "image_path", None),
                        DictGet(btn, "text", None),
                        DictGet(btn, "bg_color", DEFAULT_BG_COLOR),
                        DictGet(btn, "text_color", DEFAULT_TEXT_COLOR),
                        DictGet(btn, "font_size", DefaultFontSize),
                        FALSE)
             stored == "key" \in DOMAIN btn /\ ~Raised(img)
         IN (IF stored THEN 1 ELSE 0)
            + StoredEntries(set_buttons_entry(s, btn, 0).s, buttons, i + 1)

\* C9: set_buttons on a connected device returns the number of entries whose
\* ButtonConfig was stored, and a list of which no entry is counted leaves
\* every ButtonConfig and every ActionBinding unchanged.
C9_CountIsStoredEntries ==
    [][(Step("set_buttons") /\ last'.exc = "none") =>
            /\ last'.count = StoredEntries(StHw(hw'), last'.batch, 1)
            /\ (last'.count = 0 =>
                    pages' = pages /\ button_callbacks' = button_callbacks)]_vars

\* the key of this key event has an action bound on the current page
BoundKey(key) ==
    /\ Str(key) \in DOMAIN CurrentBindings
    /\ "action" \in DOMAIN CurrentBindings[Str(key)]

\* C10: a release, or a press of a key with no ActionBinding on the current
\* page, changes nothing, dispatches no command and raises no error.
C10_UnboundOrReleaseIsNoOp ==
    [][(Step("key_release") \/ (Step("key_press") /\ ~BoundKey(last'.key))) =>
            /\ last'.exc = "none"
            /\ current_page' = current_page
            /\ pages' = pages
            /\ button_callbacks' = button_callbacks
            /\ display' = display
            /\ launched' = launched]_vars

\* C10 witness: a key with a binding on the current page was released.
C10_Witness ==
    /\ last.op = "key_release"
    /\ BoundKey(last.key)

\* the page a binding names: the text after "page:", or the whole action string
\* of a binding of type "page"
SwitchTarget(b) == IF StartsWithPage(b.action) THEN AfterPrefix(b.action) ELSE b.action

\* C11: a press of a key whose binding on the current page has type "page" or
\* an action string starting with "page:" switches to the page it names (when
\* that page exists); a press of any other bound key hands the action string
\* to the command launcher and leaves current_page unchanged.
C11_PageBindingSwitches ==
    [][(Step("key_press") /\ BoundKey(last'.key)) =>
            LET b == CurrentBindings[Str(last'.key)]
            IN IF DictGet(b, "type", "command") = "page" \/ StartsWithPage(b.action)
               THEN SwitchTarget(b) \in DOMAIN pages => current_page' = SwitchTarget(b)
               ELSE b.action \in launched' /\ current_page' = current_page]_vars

\* the binding of this key asks for a switch to a page that does not exist
SwitchesToUnknown(key) ==
    /\ BoundKey(key)
    /\ StartsWithPage(CurrentBindings[Str(key)].action)
    /\ AfterPrefix(CurrentBindings[Str(key)].action) \notin DOMAIN pages

\* C12: a key press never raises to the device transport; when its binding
\* asks for a page that does not exist, or the command launcher fails, the
\* error is swallowed, current_page and the page set are unchanged and the
\* device stays open, so later key events and calls are processed.
C12_CallbackNeverRaises ==
    [][Step("key_press") =>
            /\ last'.exc = "none"
            /\ (SwitchesToUnknown(last'.key) \/ last'.cb_error # "none") =>
                    /\ current_page' = current_page
                    /\ pages' = pages
                    /\ deck' = deck]_vars

\* C12 witness: the launcher failed on the command of a pressed key.
C12_Witness ==
    /\ last.op = "key_press"
    /\ last.cb_error = "OSError"
    /\ deck # None

\* the pages file is one the program does not take its pages from
BadPagesFile ==
    \/ diskPages.kind \in {"malformed", "undecodable", "notdict"}
    \/ diskPages.kind = "dict" /\ "main" \notin DOMAIN diskPages.data

\* C13: __init__ never raises on bad persisted data: with a pages file that is
\* malformed, no JSON object or without "main" the store starts with
\* pages = {"main": {}}, with a malformed bindings file it starts with empty
\* bindings, and current_page is "main".
C13_InitNeverRaises ==
    last.op = "init" =>
        /\ last.exc = "none"
        /\ current_page = "main"
        /\ BadPagesFile => pages = [main |-> EmptyDict]
        /\ diskButtons.kind \in {"malformed", "undecodable"} => button_callbacks = EmptyDict

\* the operations that persist
PersistingOps ==
    {"create_page", "delete_page", "set_button", "set_buttons", "set_action",
     "clear_button", "clear_all"}

\* a restart now (a new StreamDeckState reading the two files) would start
\* with the pages and bindings that are in memory
ReloadGivesMemory ==
    /\ load_error(diskPages, diskButtons) = "none"
    /\ load_pages(diskPages) = pages
    /\ load_buttons(diskButtons) = button_callbacks

\* C14: after a successful persisting operation (create_page, delete_page,
\* set_button, set_buttons, set_action, clear_button, clear_all), whatever
\* preceded it, loading the two files yields pages and bindings equal to the
\* pages and bindings in memory.
C14_PersistenceRoundTrips ==
    (last.op \in PersistingOps /\ last.exc = "none") => ReloadGivesMemory

\* C14 witness: set_button stored a ButtonConfig with colours on a page that
\* was loaded from a file, and the files were rewritten.
C14_Witness ==
    /\ last.op = "set_button" /\ last.exc = "none"
    /\ Str(last.key) \in DOMAIN CurrentConfigs
    /\ CurrentConfigs[Str(last.key)].bg_color = PyList(<<0, 0, 255>>)
    /\ diskPages = FileDict(pages)

\* C15: connect is rate-limited: two successive searches for the device are
\* never less than RECONNECT_DELAY_BASE apart, and a call of connect blocks
\* for at most RECONNECT_DELAY_BASE.
C15_ConnectRateLimited ==
    [][Step("connect") =>
            /\ last_enumerate # Never => last_enumerate' - last_enumerate >= Delay
            /\ clock' - clock <= Delay]_vars

\* C16: the third call of connect in a row that fails (no successful connect
\* in between), whatever made each of the three fail, fails with
\* ConnectionExhausted.
C16_ThirdFailureExhausted ==
    [][(Step("connect") /\ last'.exc # "none"
            /\ last'.failed_connects = MAX_RECONNECT_ATTEMPTS) =>
            last'.exc = "ConnectionExhausted"]_vars

\* C17: connect_attempts is lowered only by a connect that succeeds, and once
\* a connect has reported ConnectionExhausted every failing connect reports
\* ConnectionExhausted until a connect succeeds.
C17_CounterResetOnlyBySuccess ==
    [][/\ connect_attempts' < connect_attempts =>
            Step("connect") /\ last'.exc = "none" /\ connect_attempts' = 0
       /\ (Step("connect") /\ last.exhausted /\ last'.exc # "none") =>
            last'.exc = "ConnectionExhausted"]_vars

\* the operations that push to the hardware after a health check
HardwareOps == {"set_button", "set_buttons", "clear_button", "clear_all", "set_brightness"}

\* this step is a call of a hardware operation
HardwareStep == callsLeft' = callsLeft - 1 /\ last'.op \in HardwareOps

PushingStep ==
    \/ HardwareStep
    \/ Step("switch_page") /\ last'.name \in DOMAIN pages
    \/ Step("delete_page") /\ last'.name = current_page /\ last'.name # "main"

\* C19: every operation that pushes to the hardware makes the health check
\* first and propagates its failure: called while the handle is held and the
\* device does not answer, a hardware operation, switch_page, and delete_page
\* of the current page fail with DeviceDisconnected.
C19_PushingOpsCheckHealth ==
    [][(PushingStep /\ deck # None /\ hw' # "ok") =>
            last'.exc = "DeviceDisconnected"]_vars

\* C20: while no device is connected, set_button, set_buttons, clear_button,
\* clear_all and set_brightness fail with DeviceNotConnected whatever their
\* arguments, and leave pages, bindings, current_page, the remembered
\* brightness and the two files unchanged.
C20_NotConnectedChangesNothing ==
    [][(HardwareStep /\ deck = None) =>
            /\ last'.exc = "DeviceNotConnected"
            /\ pages' = pages
            /\ button_callbacks' = button_callbacks
            /\ current_page' = current_page
            /\ brightness' = brightness
            /\ diskPages' = diskPages
            /\ diskButtons' = diskButtons]_vars

\* C20 witness: set_buttons was refused with a list of valid entries, in a
\* store that has a button on the current page.
C20_Witness ==
    /\ last.op = "set_buttons"
    /\ last.exc = "DeviceNotConnected"
    /\ last.batch = <<[key |-> 0, text |-> "A"]>>
    /\ CurrentConfigs # EmptyDict

\* min(100, max(0, p))
Clamp(p) == IF p < 0 THEN 0 ELSE IF p > 100 THEN 100 ELSE p

\* C21, the steps: a set_brightness(p) that returns has stored and pushed p
\* clamped to 0..100, one that fails leaves the remembered value and fails
\* because of the device, a connect that returns has set the device to the
\* remembered value, and nothing else changes the remembered value.
C21_Step ==
    /\ (Step("set_brightness") /\ last'.exc = "none") =>
            /\ brightness' = Clamp(last'.percent)
            /\ device_brightness' = Clamp(last'.percent)
    /\ (Step("set_brightness") /\ last'.exc # "none") =>
            /\ brightness' = brightness
            /\ device_brightness' = device_brightness
    /\ Step("set_brightness") =>
            last'.exc \in {"none", "DeviceNotConnected", "DeviceDisconnected",
                           "BrightnessFailed"}
    /\ (Step("connect") /\ last'.exc = "none") =>
            /\ device_brightness' = brightness
            /\ brightness' = brightness
    /\ brightness' # brightness => Step("set_brightness")

\* C21: the remembered brightness is always in 0..100 and is 70 until it is
\* set; set_brightness(p) on a healthy device stores and pushes p clamped to
\* 0..100, a set_brightness that fails leaves the remembered value unchanged,
\* and a successful connect applies the remembered value to the device.
C21_BrightnessRemembered ==
    /\ [](brightness \in 0..100)
    /\ [](last.op = "init" => brightness = DefaultBrightness)
    /\ [][C21_Step]_vars

\* C21 witness: a connect succeeded after the brightness had been set to a
\* value that is not the default, and the device has that brightness.
C21_Witness ==
    /\ last.op = "connect" /\ last.exc = "none"
    /\ brightness # DefaultBrightness
    /\ device_brightness = brightness

\* C22: disconnect never raises and ends with no handle held, also when the
\* device does not answer the reset or the close; without a handle it changes
\* nothing; pages, bindings and current_page are unchanged in any case.
C22_DisconnectAlwaysReleases ==
    [][Step("disconnect") =>
            /\ last'.exc = "none"
            /\ deck' = None
            /\ pages' = pages
            /\ button_callbacks' = button_callbacks
            /\ current_page' = current_page
            /\ deck = None =>
                    UNCHANGED <<display, device_brightness, brightness, connect_attempts,
                                diskPages, diskButtons, launched>>]_vars

\* C22 witness: disconnect was called with a handle on a device that did not
\* answer the reset; the handle is released and the device shows what it showed.
C22_Witness ==
    /\ last.op = "disconnect" /\ last.held
    /\ hw # "ok"
    /\ deck = None
    /\ display # AllBlank

\* the image a stored ButtonConfig stands for: the image file when it names
\* one, the generated image otherwise
Shown(config) ==
    IF config.image_path \notin {None, ""}
    THEN FileImage(config.image_path)
    ELSE TextImage(config.text, config.bg_color, config.text_color, config.font_size)

\* C23: a set_button that fails (health check, key or colour validation,
\* rendering or push) leaves every ButtonConfig, every binding and both files
\* unchanged; a set_button that changes a ButtonConfig has returned, changed
\* the ButtonConfig of (current_page, key) only, and the key shows its image.
C23_SetButtonAllOrNothing ==
    [][Step("set_button") =>
            /\ last'.exc # "none" =>
                    /\ pages' = pages
                    /\ button_callbacks' = button_callbacks
                    /\ diskPages' = diskPages
                    /\ diskButtons' = diskButtons
            /\ pages' # pages =>
                    /\ last'.exc = "none"
                    /\ pages' = DictSet(pages, current_page,
                                    DictSet(CurrentConfigs, Str(last'.key),
                                            pages'[current_page][Str(last'.key)]))
                    /\ display'[last'.key] = Shown(pages'[current_page][Str(last'.key)])]_vars

\* C23 witness: the device took the health check and the key count of a
\* set_button with valid arguments and did not take the image; the call
\* failed on a page that has a ButtonConfig.
C23_Witness ==
    /\ last.op = "set_button"
    /\ last.exc = "SetButtonFailed"
    /\ deck # None
    /\ CurrentConfigs # EmptyDict

\* C24: a set_buttons on a connected device that answers saves the state
\* exactly once, whatever the length of the list and however many entries are
\* skipped, and what it writes is the state after the last entry.
C24_BatchSavesOnce ==
    [][(Step("set_buttons") /\ deck # None /\ hw' = "ok") =>
            /\ last'.exc = "none"
            /\ last'.writes = 1
            /\ diskPages' = FileDict(json_pages(pages'))
            /\ diskButtons' = FileDict(button_callbacks')]_vars

\* C24 witness: set_buttons returned from a list of the greatest length of
\* which one entry was applied and the others were skipped.
C24_Witness ==
    /\ last.op = "set_buttons" /\ last.exc = "none"
    /\ Len(last.batch) = MaxBatch
    /\ last.count = 1
    /\ last.writes = 1

\* C25: set_buttons fails only when there is no handle or the device does not
\* answer the health check at the start of the call; when the device stops
\* answering later, the call returns and the files hold the state after it.
C25_BatchFailsOnlyAtStart ==
    [][Step("set_buttons") =>
            /\ last'.exc # "none" => (deck = None \/ hw' # "ok")
            /\ last'.exc = "none" =>
                    /\ diskPages' = FileDict(json_pages(pages'))
                    /\ diskButtons' = FileDict(button_callbacks')]_vars

\* C26: set_action(key, action) with a key of the device and a non-empty
\* action succeeds with or without a connected device, whether or not the key
\* has a ButtonConfig; it sets the binding of (current_page, key) to the action
\* and a type, and changes no other binding and no ButtonConfig; with an
\* empty action it fails with EmptyAction and changes nothing; set_button
\* changes no binding.
C26_ActionIndependentOfAppearance ==
    [][/\ (Step("set_action") /\ last'.key \in Keys /\ (deck = None \/ hw' = "ok")) =>
            IF last'.name = ""
            THEN /\ last'.exc = "EmptyAction"
                 /\ UNCHANGED <<pages, button_callbacks, current_page, diskPages,
                                 diskButtons, display>>
            ELSE /\ last'.exc = "none" /\ last'.ret = "True"
                 /\ pages' = pages
                 /\ LET b == button_callbacks'[current_page][Str(last'.key)]
                    IN /\ b.action = last'.name
                       /\ b.type \in {"command", "page"}
                       /\ DOMAIN b = {"action", "type"}
                       /\ button_callbacks' =
                              DictSet(button_callbacks, current_page,
                                      DictSet(CurrentBindings, Str(last'.key), b))
       /\ Step("set_button") => button_callbacks' = button_callbacks]_vars

\* C26 witness: on a connected device an action was bound to a key that has
\* no ButtonConfig on the current page.
C26_Witness ==
    /\ last.op = "set_action" /\ last.exc = "none"
    /\ deck # None
    /\ Str(last.key) \notin DOMAIN CurrentConfigs
    /\ Str(last.key) \in DOMAIN CurrentBindings

\* The entries of a two-level dictionary: (page, key, value)
Entries(d) == UNION { { <<p, k, d[p][k]>> : k \in DOMAIN d[p] } : p \in DOMAIN d }

\* C27: on a connected device that answers, clear_button(k) for a key of the
\* device removes the ButtonConfig and the binding of (current_page, k) and
\* blanks key k; clear_all removes every ButtonConfig and binding of the
\* current page and blanks every key; the entries of the other pages are
\* unchanged and the files hold the result.
C27_ClearRemovesCurrentPageEntries ==
    [][/\ (Step("clear_button") /\ deck # None /\ hw' = "ok" /\ last'.key \in Keys) =>
            /\ last'.exc = "none" /\ last'.ret = "True"
            /\ Entries(pages') =
                  { e \in Entries(pages) :
                        ~(e[1] = current_page /\ e[2] = Str(last'.key)) }
            /\ Entries(button_callbacks') =
                  { e \in Entries(button_callbacks) :
                        ~(e[1] = current_page /\ e[2] = Str(last'.key)) }
            /\ display' = [display EXCEPT ![last'.key] = Blank]
            /\ DOMAIN pages' = DOMAIN pages /\ current_page' = current_page
            /\ diskPages' = FileDict(json_pages(pages'))
            /\ diskButtons' = FileDict(button_callbacks')
       /\ (Step("clear_all") /\ deck # None /\ hw' = "ok") =>
            /\ last'.exc = "none" /\ last'.count = KeyCount
            /\ Entries(pages') = { e \in Entries(pages) : e[1] # current_page }
            /\ Entries(button_callbacks') =
                  { e \in Entries(button_callbacks) : e[1] # current_page }
            /\ display' = AllBlank
            /\ DOMAIN pages' = DOMAIN pages /\ current_page' = current_page
            /\ diskPages' = FileDict(json_pages(pages'))
            /\ diskButtons' = FileDict(button_callbacks')]_vars

\* C27 witness: a key was cleared on a connected device while another page
\* still holds a ButtonConfig and a binding for the same key.
C27_Witness ==
    /\ last.op = "clear_button" /\ last.exc = "none"
    /\ deck # None
    /\ Str(last.key) \notin DOMAIN CurrentConfigs \cup DOMAIN CurrentBindings
    /\ display[last.key] = Blank
    /\ \E e \in Entries(pages) : e[1] # current_page /\ e[2] = Str(last.key)
    /\ \E e \in Entries(button_callbacks) : e[1] # current_page

\* a stored ButtonConfig as the render reads it (lines 652-658): an absent
\* field has its default
AsRead(config) ==
    ButtonConfig(DictGet(config, "text", None),
                 DictGet(config, "image_path", None),
                 DictGet(config, "bg_color", DEFAULT_BG_COLOR),
                 DictGet(config, "text_color", DEFAULT_TEXT_COLOR),
                 DictGet(config, "font_size", DefaultFontSize))

\* what the device shows when it shows exactly the page of the given configs
PageShown(configs) ==
    [k \in Keys |-> IF Str(k) \in DOMAIN configs
                    THEN Shown(AsRead(configs[Str(k)]))
                    ELSE Blank]

\* C28: when switch_page(name) returns on a connected device that answers,
\* and when connect succeeds, every key of the device with a stored
\* ButtonConfig on the current page shows that configuration and every other
\* key is blank, whatever the device showed before.
C28_DisplayShowsCurrentPage ==
    [][/\ (Step("switch_page") /\ last'.exc = "none" /\ deck # None /\ hw' = "ok") =>
            /\ current_page' = last'.name
            /\ display' = PageShown(pages[last'.name])
       /\ (Step("connect") /\ last'.exc = "none") =>
            /\ deck' # None
            /\ display' = PageShown(pages[current_page])]_vars

\* C28 witness: switch_page returned on a connected device and the device
\* shows a stored ButtonConfig on one key and nothing on another.
C28_Witness ==
    /\ last.op = "switch_page" /\ last.exc = "none"
    /\ deck # None /\ hw = "ok"
    /\ \E k \in Keys : Str(k) \in DOMAIN CurrentConfigs /\ display[k] # Blank
    /\ \E k \in Keys : Str(k) \notin DOMAIN CurrentConfigs /\ display[k] = Blank

\* C29: delete_page(p) for an existing page other than "main" removes p with
\* all its ButtonConfigs and bindings, leaves every other page and its
\* bindings unchanged, and leaves current_page unchanged when p was not
\* current; for a page that does not exist it fails with UnknownPage and
\* changes nothing; a page created again under the name of a deleted page has
\* no ButtonConfigs and no bindings.
C29_DeletePageFrame ==
    [][/\ (Step("delete_page") /\ last'.name \in DOMAIN pages /\ last'.name # "main") =>
            /\ last'.exc = "none"
            /\ DOMAIN pages' = DOMAIN pages \ {last'.name}
            /\ Entries(pages') = { e \in Entries(pages) : e[1] # last'.name }
            /\ Entries(button_callbacks') =
                  { e \in Entries(button_callbacks) : e[1] # last'.name }
            /\ last'.name # current_page => current_page' = current_page
       /\ (Step("delete_page") /\ last'.name \notin DOMAIN pages /\ last'.name # "main") =>
            /\ last'.exc = "UnknownPage"
            /\ UNCHANGED <<pages, button_callbacks, current_page, diskPages,
                            diskButtons, display>>
       /\ (/\ Step("create_page") /\ last'.ret = "True"
           /\ last.op = "delete_page" /\ last.exc = "none"
           /\ last'.name = last.name) =>
            /\ pages'[last'.name] = EmptyDict
            /\ DictGet(button_callbacks', last'.name, EmptyDict) = EmptyDict]_vars

\* a call of one of the operations that persist
PersistingStep ==
    \E op \in {"create_page", "delete_page", "set_button", "set_buttons",
                "set_action", "clear_button", "clear_all"} : Step(op)

\* C30: when the write to disk fails during create_page, delete_page,
\* set_button, set_buttons, set_action, clear_button or clear_all, the call
\* still returns as it does with a working disk and memory holds its effect,
\* not what the files hold; after any of these calls each file is as it was,
\* or holds what memory holds after the call, or is the pages file cut short
\* by the failed write.
C30_PersistenceBestEffort ==
    [][/\ (PersistingStep /\ last'.writes > 0 /\ last'.disk # "ok") =>
            /\ last'.exc = "none"
            /\ Step("create_page") =>
                  /\ last'.ret = "True"
                  /\ last'.name \notin DOMAIN pages
                  /\ pages' = DictSet(pages, last'.name, EmptyDict)
            /\ Step("delete_page") =>
                  /\ last'.ret = "True"
                  /\ last'.name \in DOMAIN pages
                  /\ last'.name \notin DOMAIN pages' \cup DOMAIN button_callbacks'
            /\ Step("set_button") =>
                  /\ last'.ret = "True"
                  /\ Str(last'.key) \in DOMAIN pages'[current_page]
                  /\ display'[last'.key] = Shown(pages'[current_page][Str(last'.key)])
            /\ Step("set_action") =>
                  /\ last'.ret = "True"
                  /\ button_callbacks'[current_page][Str(last'.key)].action = last'.name
            /\ Step("clear_button") =>
                  /\ last'.ret = "True"
                  /\ Str(last'.key) \notin
                        DOMAIN DictGet(pages', current_page, EmptyDict)
                        \cup DOMAIN DictGet(button_callbacks', current_page, EmptyDict)
            /\ Step("clear_all") =>
                  /\ last'.count = KeyCount
                  /\ DictGet(pages', current_page, EmptyDict) = EmptyDict
                  /\ DictGet(button_callbacks', current_page, EmptyDict) = EmptyDict
            /\ Step("set_buttons") =>
                  /\ last'.count = Len(last'.batch)
                  /\ \A i \in 1..Len(last'.batch) :
                        Str(last'.batch[i].key) \in DOMAIN pages'[current_page]
       /\ PersistingStep =>
            /\ diskPages' \in {diskPages, FileDict(json_pages(pages')), FileMalformed}
            /\ diskButtons' \in {diskButtons, FileDict(button_callbacks')}]_vars

\* C30 witness: set_button returned True while the pages file could not be
\* written: memory holds the ButtonConfig and the file does not.
C30_Witness ==
    /\ last.op = "set_button" /\ last.exc = "none" /\ last.ret = "True"
    /\ last.writes > 0 /\ last.disk = "denied"
    /\ Str(last.key) \in DOMAIN CurrentConfigs
    /\ diskPages # FileDict(json_pages(pages))

\* C31: a process killed at any point of a save leaves each of the two files
\* with its complete previous content or with its complete new content, and
\* the process started again loads what the files held before the save or
\* what memory held at the save.
C31_CrashLeavesWholeFiles ==
    [][/\ (last'.disk = Dead /\ last.disk # Dead) =>
            /\ diskPages' \in {diskPages, FileDict(json_pages(pages'))}
            /\ diskButtons' \in {diskButtons, FileDict(button_callbacks')}
       /\ (last'.op = "restart" /\ last.op # "restart") =>
            /\ diskPages.kind = "dict" /\ pages' = diskPages.data
            /\ diskButtons.kind \in {"dict", "missing"}]_vars

\* the colour _validate_color was last called with, and what it returned
ColorArg == last.batch[1].color
ColorVal == last.batch[1].val

\* a sequence of 3 components that each lie in 0..255
InColorRange(color) ==
    /\ Len(color.items) = 3
    /\ \A i \in 1..3 : color.items[i] >= 0 /\ color.items[i] <= 255 * UnitsOf(color)

\* C32: validate_color returns exactly for the sequences of 3 numbers that
\* each lie in 0..255, and returns their values as a triple of integers; for
\* a component below 0 or above 255 and for a length other than 3 it fails
\* with InvalidColor.
C32_ColorAcceptedIffInRange ==
    last.op = "validate_color" =>
        /\ InColorRange(ColorArg) <=> last.exc = "none"
        /\ ~InColorRange(ColorArg) => last.exc = "InvalidColor"
        /\ (last.exc = "none" /\ \A i \in 1..3 : ColorArg.items[i] % UnitsOf(ColorArg) = 0) =>
              /\ ColorVal.py = "tuple"
              /\ \A i \in 1..3 : ColorVal.items[i] * UnitsOf(ColorArg) = ColorArg.items[i]

\* letters, digits, underscore, hyphen and the space character
PlainNameChars == PageNameChars \ {"\t", "\n", "\r", "\f"}

\* a name of 1 to 50 characters drawn from letters, digits, underscore,
\* hyphen and space
IsPlainName(name) ==
    /\ Len(CharsOf(name)) \in 1..MAX_PAGE_NAME_LENGTH
    /\ \A i \in 1..Len(CharsOf(name)) : CharsOf(name)[i] \in PlainNameChars

\* C33: validate_page_name, and so create_page, accepts exactly the names of
\* 1 to 50 characters drawn from letters, digits, underscore, hyphen and
\* space and fails with InvalidPageName for every other name, a name with a
\* tab or a newline included; a rejected create_page leaves the pages as
\* they were.
C33_PageNameAcceptedIffPlain ==
    [][(Step("validate_page_name") \/ Step("create_page")) =>
            /\ IsPlainName(last'.name) <=> last'.exc = "none"
            /\ ~IsPlainName(last'.name) => last'.exc = "InvalidPageName"
            /\ last'.exc # "none" => pages' = pages]_vars

\* C34: in every reachable state, after initialisation from any pair of
\* files and after any sequence of calls, every page name that has an entry
\* in button_callbacks is a page of pages.
C34_BindingsBelongToPages ==
    last.exc # "UnicodeDecodeError" => DOMAIN button_callbacks \subseteq DOMAIN pages

\* C35: switch_page and connect leave every stored ButtonConfig of every page
\* exactly as it was, a ButtonConfig loaded from disk with only some of its
\* fields included.
C35_RenderLeavesStoreUnchanged ==
    [][(Step("switch_page") \/ Step("connect")) => pages' = pages]_vars

\* C36: whenever connect returns, the session holds a handle on a device that
\* answers and the failure counter is 0; whenever connect raises, the session
\* holds no handle, also when it held one before the call.
C36_ConnectOutcomeMatchesState ==
    [][Step("connect") =>
            /\ last'.exc = "none" =>
                  deck' # None /\ hw' = "ok" /\ connect_attempts' = 0
            /\ last'.exc # "none" => deck' = None]_vars

\* the bindings and the configs a step adds or changes, as (store, page, key)
StoredBy ==
    {<<"pages", e[1], e[2]>> : e \in {x \in Entries(pages') : x \notin Entries(pages)}}
    \cup {<<"button_callbacks", e[1], e[2]>> :
            e \in {x \in Entries(button_callbacks') : x \notin Entries(button_callbacks)}}

\* C37: while the reader thread switches pages, set_button and set_action store
\* their entry under the page that was current when the call began, which for
\* set_button is the page whose display received the image, and set_action
\* never ends with an internal error
C37_StoresUnderStartingPage ==
    [][/\ (callerPc = "sb_store" /\ callerPc' = "sb_save") =>
             \A e \in StoredBy : e[2] = callerArg.page /\ e[2] = callerArg.shown
       /\ (callerPc = "sa_store" /\ callerPc' = "sa_save") =>
             \A e \in StoredBy : e[2] = callerArg.page
       /\ (callerPc = "sa_store" /\ callerPc' = "idle") => last'.exc # "KeyError"]_vars


====
